---- MODULE Spec2Model ----
(***************************************************************************)
(* Model of the BibTeX enricher: the four provider clients (Crossref,      *)
(* Semantic Scholar, PubMed, Elsevier), the per-record fallback flow of    *)
(* BibTeXEnricher.enrich_entry, the batch loop of enrich_file and the      *)
(* process-wide response cache installed by BibTeXEnricher.__init__.       *)
(*                                                                         *)
(* The specifications of the module:                                       *)
(*   Spec        the batch run of enrich_file over a loaded file           *)
(*   SpecEntry   the same run over a file of one record, for every         *)
(*               combination of missing, empty and set fields              *)
(*   SpecClient  one provider client method applied to one environment     *)
(*   SpecRetry   the same, over every sequence of request statuses         *)
(*   SpecSearch  the title searches, over the candidates returned          *)
(*   SpecProcess enricher constructions and identifier lookups in one      *)
(*               Python process (session patching, cache store)            *)
(*   SpecConstruct constructions of enrichers and of single clients        *)
(*   SpecTitle   clean_title and title_similarity on a pair of titles      *)
(*   SpecCleaner BibTeXCleaner.clean_abstract on one text                  *)
(*   SpecCli     main of the command line, with the batch run it starts    *)
(*   SpecLive    the batch run with providers that may stop responding     *)
(***************************************************************************)
EXTENDS Integers, Sequences, FiniteSets, TLC

VARIABLES
    \* ---- enrich_file / enrich_entry (Spec) ----
    elsevier,       \* self.elsevier is not None
    pubmed,         \* self.pubmed is not None
    args,           \* use_elsevier, use_pubmed, use_semantic_scholar, dry_run
    entries,        \* bib_db.entries, mutated in place
    loaded,         \* the entries as load_bibtex returned them
    i,              \* loop index of enrich_file (1-based)
    pc,             \* position in enrich_file / enrich_entry
    doi,            \* local variable doi of enrich_entry
    had_abstract,   \* local variable had_abstract of enrich_file
    stats,          \* the stats dictionary
    calls,          \* provider operations invoked for the current record
    last,           \* how the most recent provider operation ended
    saved,          \* the calls of save_bibtex so far and what the last wrote
    \* ---- one client method call (SpecClient) ----
    cl_method, cl_env, cl_res,
    \* ---- process state (SpecProcess) ----
    session_factory,  \* what requests.Session currently names
    enrichers,        \* the BibTeXEnricher objects constructed so far
    store,            \* the cache backends: cache name -> cached signatures
    issued,           \* the identical identifier lookups issued last
    network,          \* the underlying network calls they caused
    entrez,           \* the module attributes Bio.Entrez.email and .api_key
    built,            \* how the last construction of a single client ended
    \* ---- the text functions (SpecTitle, SpecCleaner) ----
    titleA, titleB,   \* the arguments of clean_title / title_similarity
    cleaned,          \* what clean_title(titleA) returned
    similarity,       \* what title_similarity(titleA, titleB) returned
    raw,              \* the argument of clean_abstract
    abstract,         \* what clean_abstract(raw) returned
    applied,          \* the text functions called so far
    \* ---- the command line (SpecCli) ----
    argv,             \* the parsed arguments of main
    fs,               \* the input file: "missing", "unreadable" or "ok"
    output_path,      \* local variable output_path of main
    summary,          \* the enrichment summary printed
    exit_status,      \* the status main exited with
    cli_pc            \* position in main

engineVars  == <<elsevier, pubmed, args, entries, loaded, i, pc, doi,
                 had_abstract, stats, calls, last, saved>>
clientVars  == <<cl_method, cl_env, cl_res>>
processVars == <<session_factory, enrichers, store, issued, network, entrez, built>>
textVars    == <<titleA, titleB, cleaned, similarity, raw, abstract, applied>>
cliVars     == <<argv, fs, output_path, summary, exit_status, cli_pc>>
vars == <<engineVars, clientVars, processVars, textVars, cliVars>>

----------------------------------------------------------------------------
(* Bounds of the model *)
MaxRecords   == 2   \* records in the input file
MaxCands     == 2   \* candidates in a search response (SpecClient)
MaxEnrichers == 2   \* enrichers constructed in one process (SpecProcess)
MaxLookups   == 2   \* identical lookups issued in a row (SpecProcess)

(* Program constants *)
max_retries   == 3
retry_delay   == 1
MinSimilarity == 85   \* min_similarity = 0.85, in hundredths

----------------------------------------------------------------------------
(* Values *)
Absent  == "<absent>"     \* the key is not in the dictionary / None
Empty   == ""
NoTitle == 0 - 1          \* a candidate without a title

Truthy(v) == v # Absent /\ v # Empty

Statuses == {"ok", "transient", "notfound"}
\* "transient": network error or 5xx; "notfound": HTTP 404.  Both surface as
\* requests.exceptions.RequestException (session.get or raise_for_status).
Failed(s) == s # "ok"

Cand     == [sim : {NoTitle, 80, 85, 90}, id : {Absent, "d2"}, abs : {Absent, "abs"}]
AbsVals  == {Absent, Empty, "abs"}
\* Payload kinds.  "nokey": the response object lacks the expected key;
\* "badtype": the response is a non-empty array where an object is expected;
\* "empty": a well-formed response that holds no record.
Malformed == {"nokey", "badtype"}

SeqsUpTo(S, n) == UNION {[1..k -> S] : k \in 0..n}

Payload(k, a, c)   == [kind |-> k, abs |-> a, cands |-> c]
NoPayload          == Payload("ok", Absent, <<>>)
LookupPayloads     == {Payload("ok", a, <<>>) : a \in AbsVals}
                        \cup {Payload(k, Absent, <<>>) : k \in Malformed \cup {"empty"}}
SearchPayloads(n)  == {Payload("ok", Absent, c) : c \in SeqsUpTo(Cand, n)}
                        \cup {Payload(k, Absent, <<>>) : k \in Malformed}

StatusSeqs == [1..max_retries -> Statuses]
\* k failures of one kind, then success
SteadySeqs == {s \in StatusSeqs :
                 \E k \in 0..max_retries : \E f \in Statuses \ {"ok"} :
                    \A a \in 1..max_retries : s[a] = IF a <= k THEN f ELSE "ok"}
AllOk == [a \in 1..max_retries |-> "ok"]

\* what a method returns
None      == [kind |-> "none", abs |-> Absent, id |-> Absent]
Obj(a, d) == [kind |-> "obj", abs |-> a, id |-> d]
List      == [kind |-> "list", abs |-> Absent, id |-> Absent]
DataTruthy(d) == d.kind # "none"

Res(d, e, n, s, f) == [data |-> d, exc |-> e, net |-> n, sleeps |-> s, fail |-> f]
Call(ep, st) == [ep |-> ep, status |-> st]

----------------------------------------------------------------------------
(* The retry loop shared by the clients: "for attempt in range(max_retries)" *)
(* with "if attempt == max_retries - 1: raise" and                          *)
(* "time.sleep(retry_delay * (attempt + 1))".                               *)
(* Returns the 0-based attempt that succeeded, or max_retries when the      *)
(* last attempt failed too and the exception is re-raised.                  *)
RECURSIVE RetryLoop(_, _)
RetryLoop(st, attempt) ==
    IF ~Failed(st[attempt + 1]) THEN attempt
    ELSE IF attempt = max_retries - 1 THEN max_retries
    ELSE RetryLoop(st, attempt + 1)

Attempts(st)  == LET a == RetryLoop(st, 0) IN IF a = max_retries THEN max_retries ELSE a + 1
Exhausted(st) == RetryLoop(st, 0) = max_retries
NetOf(ep, st) == [k \in 1..Attempts(st) |-> Call(ep, st[k])]
\* the same delay after every failed attempt: retry_delay without the factor
SleepsOfFlat(st) == LET n == IF Exhausted(st) THEN max_retries - 1 ELSE Attempts(st) - 1
                    IN  [k \in 1..n |-> retry_delay]
\* one sleep after every failed attempt but the last one
SleepsOf(st)  == LET n == IF Exhausted(st) THEN max_retries - 1 ELSE Attempts(st) - 1
                 IN  [k \in 1..n |-> retry_delay * k]

(* "Find best matching result": best_similarity starts at 0 and a candidate *)
(* replaces the best only when strictly more similar.                       *)
\* the comparison "similarity >= best_similarity": a later candidate of the
\* same similarity replaces the best
RECURSIVE BestMatchLast(_, _, _)
BestMatchLast(cands, k, best) ==
    IF k > Len(cands) THEN best
    ELSE IF cands[k].sim = NoTitle THEN BestMatchLast(cands, k + 1, best)
    ELSE IF cands[k].sim >= best.sim
         THEN BestMatchLast(cands, k + 1, [sim |-> cands[k].sim, idx |-> k])
         ELSE BestMatchLast(cands, k + 1, best)
RECURSIVE BestMatch(_, _, _)
BestMatch(cands, k, best) ==
    IF k > Len(cands) THEN best
    ELSE IF cands[k].sim = NoTitle THEN BestMatch(cands, k + 1, best)
    ELSE IF cands[k].sim > best.sim
         THEN BestMatch(cands, k + 1, [sim |-> cands[k].sim, idx |-> k])
         ELSE BestMatch(cands, k + 1, best)
Best(cands) == BestMatch(cands, 1, [sim |-> 0, idx |-> 0])

----------------------------------------------------------------------------
(* An environment of one method call: env.st1[k] is the status of the k-th  *)
(* call to the method's first endpoint and env.p1 the payload of a          *)
(* successful one; st2/p2 are the same for its second endpoint (PubMed      *)
(* efetch, the Elsevier abstract retrieval, the Semantic Scholar details).  *)

AsData(p) == IF p.kind = "badtype" THEN List
             ELSE IF p.kind = "empty" THEN None
             ELSE IF p.kind = "nokey" THEN Obj(Absent, Absent)
             ELSE Obj(p.abs, Absent)
\* the environment the second endpoint's call sees
Second(env) == [st1 |-> env.st2, p1 |-> env.p2, st2 |-> env.st2, p2 |-> env.p2,
                min_similarity |-> env.min_similarity]
CandData(c) == Obj(c.abs, c.id)

(* ---- CrossrefAPI ---- *)
\* get_by_doi: one call, no retry loop; only RequestException is caught
CrossrefGetByDoi(env) ==
    LET st  == env.st1[1]
        net == <<Call("crossref_doi", st)>>
    IN  IF Failed(st) THEN Res(None, "none", net, <<>>, st)
        ELSE IF env.p1.kind = "nokey" THEN Res(None, "KeyError", net, <<>>, "none")
        ELSE IF env.p1.kind = "badtype" THEN Res(None, "TypeError", net, <<>>, "none")
        ELSE Res(AsData(env.p1), "none", net, <<>>, "none")

\* search_by_title as it would be if the outer handler did not catch
\* RequestException
CrossrefSearchByTitleUncaught(env) ==
    LET net    == NetOf("crossref_search", env.st1)
        sleeps == SleepsOf(env.st1)
        best   == Best(env.p1.cands)
    IN  IF Exhausted(env.st1)
            THEN Res(None, "RequestException", net, sleeps, env.st1[max_retries])
        ELSE IF env.p1.kind # "ok" \/ env.p1.cands = <<>>
            THEN Res(None, "none", net, sleeps, "none")
        ELSE IF best.sim >= env.min_similarity /\ best.idx # 0
            THEN Res(CandData(env.p1.cands[best.idx]), "none", net, sleeps, "none")
        ELSE Res(None, "none", net, sleeps, "none")

\* search_by_title: retry loop around the request, then the best match;
\* RequestException, KeyError and IndexError are caught
CrossrefSearchByTitle(env) ==
    LET net    == NetOf("crossref_search", env.st1)
        sleeps == SleepsOf(env.st1)
        best   == Best(env.p1.cands)
    IN  IF Exhausted(env.st1)
            THEN Res(None, "none", net, sleeps, env.st1[max_retries])
        ELSE IF env.p1.kind = "nokey" THEN Res(None, "none", net, sleeps, "none")
        ELSE IF env.p1.kind = "badtype" THEN Res(None, "TypeError", net, sleeps, "none")
        ELSE IF env.p1.cands = <<>> THEN Res(None, "none", net, sleeps, "none")
        ELSE IF best.sim >= env.min_similarity
            THEN Res(IF best.idx = 0 THEN None ELSE CandData(env.p1.cands[best.idx]),
                     "none", net, sleeps, "none")
        ELSE Res(None, "none", net, sleeps, "none")

\* get_abstract: entry['abstract'] if the key is present
CrossrefGetAbstract(d) == [val |-> d.abs, exc |-> "none"]

(* ---- SemanticScholarAPI ---- *)
\* get_by_doi: the request and response.json() inside the retry loop
SemanticScholarGetByDoi(env) ==
    LET net    == NetOf("ss_paper_doi", env.st1)
        sleeps == SleepsOf(env.st1)
    IN  IF Exhausted(env.st1)
            THEN Res(None, "none", net, sleeps, env.st1[max_retries])
            ELSE Res(AsData(env.p1), "none", net, sleeps, "none")

\* search_by_title: retry loop around the search request; the details
\* request for the matched paperId is made once, outside the loop;
\* best_match.get('paperId') is evaluated whenever best_similarity reaches
\* min_similarity, also when best_match is still None
SemanticScholarSearchByTitle(env) ==
    LET net    == NetOf("ss_search", env.st1)
        sleeps == SleepsOf(env.st1)
        best   == Best(env.p1.cands)
        st     == env.st2[1]
        net2   == Append(net, Call("ss_paper_id", st))
    IN  IF Exhausted(env.st1)
            THEN Res(None, "none", net, sleeps, env.st1[max_retries])
        ELSE IF env.p1.kind = "nokey" THEN Res(None, "none", net, sleeps, "none")
        ELSE IF env.p1.kind = "badtype" THEN Res(None, "TypeError", net, sleeps, "none")
        ELSE IF env.p1.cands = <<>> THEN Res(None, "none", net, sleeps, "none")
        ELSE IF best.sim >= env.min_similarity
            THEN IF best.idx = 0
                 THEN Res(None, "AttributeError", net, sleeps, "none")
                 ELSE IF Truthy(env.p1.cands[best.idx].id)
                 THEN IF Failed(st) THEN Res(None, "none", net2, sleeps, st)
                      ELSE Res(AsData(env.p2), "none", net2, sleeps, "none")
                 ELSE Res(CandData(env.p1.cands[best.idx]), "none", net, sleeps, "none")
        ELSE Res(None, "none", net, sleeps, "none")

\* get_abstract: entry.get('abstract'); a list has no get
SemanticScholarGetAbstract(d) ==
    IF d.kind = "list" THEN [val |-> Absent, exc |-> "AttributeError"]
    ELSE [val |-> d.abs, exc |-> "none"]

(* ---- ElsevierAPI ---- *)
\* get_by_doi: the request and response.json() inside the retry loop
ElsevierGetByDoi(env) ==
    LET net    == NetOf("elsevier_abstract_doi", env.st1)
        sleeps == SleepsOf(env.st1)
    IN  IF Exhausted(env.st1)
            THEN Res(None, "none", net, sleeps, env.st1[max_retries])
            ELSE Res(AsData(env.p1), "none", net, sleeps, "none")

\* search_by_title returning the matched entry of the search response, as
\* the Crossref search does
ElsevierSearchByTitleNoLookup(env) ==
    LET net    == NetOf("elsevier_search", env.st1)
        sleeps == SleepsOf(env.st1)
        best   == Best(env.p1.cands)
    IN  IF Exhausted(env.st1)
            THEN Res(None, "none", net, sleeps, env.st1[max_retries])
        ELSE IF env.p1.kind # "ok" THEN Res(None, "none", net, sleeps, "none")
        ELSE IF best.sim >= env.min_similarity /\ best.idx # 0
            THEN Res(CandData(env.p1.cands[best.idx]), "none", net, sleeps, "none")
        ELSE Res(None, "none", net, sleeps, "none")

\* search_by_title: the whole body sits inside the retry loop; a match with
\* a prism:doi is resolved by a second get_by_doi
ElsevierSearchByTitle(env) ==
    LET net    == NetOf("elsevier_search", env.st1)
        sleeps == SleepsOf(env.st1)
        best   == Best(env.p1.cands)
        second == ElsevierGetByDoi(Second(env))
    IN  IF Exhausted(env.st1)
            THEN Res(None, "none", net, sleeps, env.st1[max_retries])
        ELSE IF env.p1.kind # "ok" THEN Res(None, "none", net, sleeps, "none")
        ELSE IF best.sim >= env.min_similarity /\ best.idx # 0
                /\ env.p1.cands[best.idx].id # Absent
            THEN Res(second.data, "none", net \o second.net,
                     sleeps \o second.sleeps, second.fail)
        ELSE Res(None, "none", net, sleeps, "none")

\* get_abstract: coredata/dc:description; KeyError and IndexError are caught,
\* and a list has neither response key
ElsevierGetAbstract(d) == [val |-> d.abs, exc |-> "none"]

(* ---- PubMedAPI ---- *)
\* get_by_pmid: efetch and the read of records['PubmedArticle'] inside the
\* retry loop; every Exception is retried and finally swallowed
RECURSIVE PubMedGetByPmidLoop(_, _, _, _)
PubMedGetByPmidLoop(env, attempt, net, sleeps) ==
    LET st   == env.st1[attempt + 1]
        net1 == Append(net, Call("pubmed_efetch", st))
    IN  IF ~Failed(st) /\ env.p1.kind \notin Malformed
            THEN Res(AsData(env.p1), "none", net1, sleeps, "none")
        ELSE IF attempt = max_retries - 1
            THEN Res(None, "none", net1, sleeps, IF Failed(st) THEN st ELSE "none")
        ELSE PubMedGetByPmidLoop(env, attempt + 1, net1,
                                 Append(sleeps, retry_delay * (attempt + 1)))
PubMedGetByPmid(env) == PubMedGetByPmidLoop(env, 0, <<>>, <<>>)

\* search_by_title: esearch, efetch and the matching inside the retry loop;
\* an article without ArticleTitle raises KeyError, which is retried as well
RECURSIVE PubMedSearchByTitleLoop(_, _, _, _)
PubMedSearchByTitleLoop(env, attempt, net, sleeps) ==
    LET st    == env.st1[attempt + 1]
        st2   == env.st2[attempt + 1]
        net1  == Append(net, Call("pubmed_esearch", st))
        net2  == Append(net1, Call("pubmed_efetch", st2))
        cands == IF env.p2.kind = "empty" THEN <<>> ELSE env.p1.cands
        best  == Best(cands)
        retry(n, cause) ==
            IF attempt = max_retries - 1 THEN Res(None, "none", n, sleeps, cause)
            ELSE PubMedSearchByTitleLoop(env, attempt + 1, n,
                                         Append(sleeps, retry_delay * (attempt + 1)))
    IN  IF Failed(st) THEN retry(net1, st)
        ELSE IF env.p1.kind \in Malformed THEN retry(net1, "none")
        ELSE IF env.p1.cands = <<>> THEN Res(None, "none", net1, sleeps, "none")
        ELSE IF Failed(st2) THEN retry(net2, st2)
        ELSE IF env.p2.kind \in Malformed THEN retry(net2, "none")
        ELSE IF \E k \in 1..Len(cands) : cands[k].sim = NoTitle THEN retry(net2, "none")
        ELSE IF best.sim >= env.min_similarity /\ best.idx # 0
            THEN Res(CandData(cands[best.idx]), "none", net2, sleeps, "none")
        ELSE Res(None, "none", net2, sleeps, "none")
PubMedSearchByTitle(env) == PubMedSearchByTitleLoop(env, 0, <<>>, <<>>)

\* get_abstract: Abstract/AbstractText[0]; KeyError and IndexError are caught
PubMedGetAbstract(d) == [val |-> d.abs, exc |-> "none"]

----------------------------------------------------------------------------
(* The environments a call is checked against *)
NoSecond == [st2 : {AllOk}, p2 : {NoPayload}]
AllFail(f) == [a \in 1..max_retries |-> f]
ThenOk(f)  == [a \in 1..max_retries |-> IF a = 1 THEN f ELSE "ok"]
SecondPayloads == {Payload("ok", "abs", <<>>), Payload("ok", Absent, <<>>),
                   Payload("nokey", Absent, <<>>)}

\* min_similarity is the parameter of search_by_title, at its default
Env(s1, q1, s2, q2) == [st1 |-> s1, p1 |-> q1, st2 |-> s2, p2 |-> q2,
                        min_similarity |-> MinSimilarity]
LookupEnvs    == {Env(s, q, AllOk, NoPayload) : s \in StatusSeqs, q \in LookupPayloads}
SearchEnvs(n) == [st1 : SteadySeqs, p1 : SearchPayloads(n),
                  st2 : SteadySeqs, p2 : SecondPayloads,
                  min_similarity : {MinSimilarity}]

Lookups  == {"crossref.get_by_doi", "semantic_scholar.get_by_doi",
             "elsevier.get_by_doi", "pubmed.get_by_pmid"}
Searches == {"crossref.search_by_title", "semantic_scholar.search_by_title",
             "elsevier.search_by_title", "pubmed.search_by_title"}
Methods  == Lookups \cup Searches

Apply(m, env) ==
    CASE m = "crossref.get_by_doi"               -> CrossrefGetByDoi(env)
      [] m = "crossref.search_by_title"          -> CrossrefSearchByTitle(env)
      [] m = "semantic_scholar.get_by_doi"       -> SemanticScholarGetByDoi(env)
      [] m = "semantic_scholar.search_by_title"  -> SemanticScholarSearchByTitle(env)
      [] m = "elsevier.get_by_doi"               -> ElsevierGetByDoi(env)
      [] m = "elsevier.search_by_title"          -> ElsevierSearchByTitle(env)
      [] m = "pubmed.get_by_pmid"                -> PubMedGetByPmid(env)
      [] m = "pubmed.search_by_title"            -> PubMedSearchByTitle(env)

GetAbstract(m, d) ==
    CASE m \in {"crossref.get_by_doi", "crossref.search_by_title"} -> CrossrefGetAbstract(d)
      [] m \in {"semantic_scholar.get_by_doi", "semantic_scholar.search_by_title"}
                                                   -> SemanticScholarGetAbstract(d)
      [] m \in {"elsevier.get_by_doi", "elsevier.search_by_title"} -> ElsevierGetAbstract(d)
      [] m \in {"pubmed.get_by_pmid", "pubmed.search_by_title"}    -> PubMedGetAbstract(d)

----------------------------------------------------------------------------
(* BibTeXCleaner.clean_abstract.  A text is a sequence of tokens: a word,   *)
(* a space, a newline, a markup tag, the entity "&amp;", an ampersand, a     *)
(* bracket or the control character U+0001 (written "^A").  The texts of    *)
(* the model hold no backslash and no non-ASCII character, so the LaTeX,    *)
(* NFKC and NFKD steps find nothing to replace in them.                      *)
Tags     == {"<p>", "</p>"}
Spaces   == {" ", "\n"}
Opening  == {"[", "{", "("}
Controls == {"^A"}
Closing  == {"]", "}", ")"}

\* html.unescape
Unescape(ts) == [k \in 1..Len(ts) |-> IF ts[k] = "&amp;" THEN "&" ELSE ts[k]]
\* re.sub(r'<[^>]+>', ' ', text)
StripTags(ts) == [k \in 1..Len(ts) |-> IF ts[k] \in Tags THEN " " ELSE ts[k]]
\* text.replace('\n', ' ') and re.sub(r'\s+', ' ', text)
RECURSIVE CollapseSpaces(_)
CollapseSpaces(ts) ==
    IF ts = <<>> THEN <<>>
    ELSE IF Head(ts) \in Spaces
         THEN IF Len(ts) > 1 /\ ts[2] \in Spaces
              THEN CollapseSpaces(Tail(ts))
              ELSE <<" ">> \o CollapseSpaces(Tail(ts))
         ELSE <<Head(ts)>> \o CollapseSpaces(Tail(ts))
\* re.sub(r'[\x00-\x08\x0B\x0C\x0E-\x1F\x7F]', '', text), after the whitespace
\* runs were collapsed
DropControls(ts) == SelectSeq(ts, LAMBDA c : c \notin Controls)
\* re.sub(r'^\s*[\[\{\(]|\[\{\)]\s*$', '', text): an opening bracket at the
\* start, after optional whitespace; and the four characters "[{)]" at the
\* end, before optional whitespace
RECURSIVE LeadingSpaces(_)
LeadingSpaces(ts) ==
    IF ts # <<>> /\ Head(ts) \in Spaces THEN 1 + LeadingSpaces(Tail(ts)) ELSE 0
RECURSIVE TrailingSpaces(_)
TrailingSpaces(ts) ==
    IF ts # <<>> /\ ts[Len(ts)] \in Spaces
    THEN 1 + TrailingSpaces(SubSeq(ts, 1, Len(ts) - 1)) ELSE 0
DropLeading(ts) ==
    LET k == LeadingSpaces(ts)
    IN  IF Len(ts) > k /\ ts[k + 1] \in Opening THEN SubSeq(ts, k + 2, Len(ts))
        ELSE ts
DropTrailing(ts) ==
    LET n == Len(ts) - TrailingSpaces(ts)
    IN  IF n >= 4 /\ ts[n - 3] = "[" /\ ts[n - 2] = "{" /\ ts[n - 1] = ")" /\ ts[n] = "]"
        THEN SubSeq(ts, 1, n - 4)
        ELSE ts
\* text.strip()
RECURSIVE Strip(_)
Strip(ts) ==
    IF ts = <<>> THEN <<>>
    ELSE IF Head(ts) \in Spaces THEN Strip(Tail(ts))
    ELSE IF ts[Len(ts)] \in Spaces THEN Strip(SubSeq(ts, 1, Len(ts) - 1))
    ELSE ts

\* the text before the bracket pattern is applied (lines 26-41)
Body(ts) == DropControls(CollapseSpaces(StripTags(Unescape(ts))))
CleanTokens(ts) == Strip(DropTrailing(DropLeading(Body(ts))))

\* the texts a provider sends as an abstract, and their characters
Texts == {"abs", "<p>abs</p>"}
TokensOf(v) ==
    CASE v = "abs"        -> <<"abs">>
      [] v = "<p>abs</p>" -> <<"<p>", "abs", "</p>">>
      [] v = Empty        -> <<>>
Render(ts) == CHOOSE v \in Texts \cup {Empty} : TokensOf(v) = ts

\* clean_abstract: None for a falsy text
clean_abstract(text) ==
    IF ~Truthy(text) THEN Absent ELSE Render(CleanTokens(TokensOf(text)))

\* clean_abstract on a text given by its tokens: None for the empty text
MaxTextLen == 5
Tokens     == {"Foo", " ", "<p>", "&amp;", "^A", "[", "{", "(", "]", "}", ")"}
Example    == <<"<p>", "Foo", " ", "&amp;", " ", "Bar", "</p>">>
AbstractTexts == SeqsUpTo(Tokens, MaxTextLen) \cup {Example}
CleanAbstract(ts) ==
    IF ts = <<>> THEN [none |-> TRUE, text |-> <<>>]
    ELSE [none |-> FALSE, text |-> CleanTokens(ts)]

----------------------------------------------------------------------------
(* clean_title and title_similarity, the same in the four clients.  A title *)
(* is a sequence of characters: a lower-case and an upper-case letter, the  *)
(* hyphen, a punctuation mark and the space.                                *)
MaxTitleLen == 3
Letters     == {"a", "A"}
Hyphen      == "-"
Punctuation == {"!"}
Chars       == Letters \cup {Hyphen, " "} \cup Punctuation
Titles      == SeqsUpTo(Chars, MaxTitleLen)

\* [^\w\s-]: neither a word character, nor whitespace, nor the hyphen
Special(c) == c \notin Letters /\ c \notin Spaces /\ c # Hyphen
\* re.sub(r'[^\w\s-]', ' ', title)
SubSpecial(t) == [k \in 1..Len(t) |-> IF Special(t[k]) THEN " " ELSE t[k]]
\* ' '.join(title.split()): no whitespace at the ends, one space between words
JoinSplit(t) == Strip(CollapseSpaces(t))
\* str.lower
Lower(t) == [k \in 1..Len(t) |-> IF t[k] = "A" THEN "a" ELSE t[k]]

clean_title(title) == Lower(JoinSplit(SubSpecial(title)))

(* difflib.SequenceMatcher(None, a, b) on strings shorter than 200          *)
(* characters (no junk, no popular elements).  Positions are Python's:      *)
(* a[i:i+k] is the TLA+ subsequence i+1..i+k.                                *)
\* the blocks a[i:i+k] == b[j:j+k] within a[alo:ahi] and b[blo:bhi]
Blocks(a, b, alo, ahi, blo, bhi) ==
    {m \in [i : alo..ahi - 1, j : blo..bhi - 1, k : 1..ahi - alo] :
        /\ m.i + m.k <= ahi
        /\ m.j + m.k <= bhi
        /\ SubSeq(a, m.i + 1, m.i + m.k) = SubSeq(b, m.j + 1, m.j + m.k)}
\* find_longest_match: of the longest blocks the one that starts earliest
\* in a, and of those the one that starts earliest in b
find_longest_match(a, b, alo, ahi, blo, bhi) ==
    LET bs == Blocks(a, b, alo, ahi, blo, bhi)
    IN  IF bs = {} THEN [i |-> alo, j |-> blo, k |-> 0]
        ELSE CHOOSE m \in bs :
                \A n \in bs :
                    \/ m.k > n.k
                    \/ m.k = n.k /\ m.i < n.i
                    \/ m.k = n.k /\ m.i = n.i /\ m.j <= n.j
\* get_matching_blocks: the longest match, then the same to its left and to
\* its right; Matches is the summed size of the blocks
RECURSIVE Matches(_, _, _, _, _, _)
Matches(a, b, alo, ahi, blo, bhi) ==
    LET m == find_longest_match(a, b, alo, ahi, blo, bhi)
    IN  IF m.k = 0 THEN 0
        ELSE m.k + (IF alo < m.i /\ blo < m.j
                    THEN Matches(a, b, alo, m.i, blo, m.j) ELSE 0)
                 + (IF m.i + m.k < ahi /\ m.j + m.k < bhi
                    THEN Matches(a, b, m.i + m.k, ahi, m.j + m.k, bhi) ELSE 0)
\* ratio: 2.0 * matches / length, and 1.0 when both strings are empty; the
\* quotient is kept as numerator and denominator
Ratio(matches, length) ==
    IF length > 0 THEN [num |-> 2 * matches, den |-> length]
    ELSE [num |-> 1, den |-> 1]
SameRatio(r, s) == r.num * s.den = s.num * r.den
IsOne(r) == r.num = r.den

title_similarity(title1, title2) ==
    LET a == clean_title(title1)
        b == clean_title(title2)
    IN  Ratio(Matches(a, b, 0, Len(a), 0, Len(b)), Len(a) + Len(b))

----------------------------------------------------------------------------
(* Records of the input file *)
Entry(d, t, p, a) == [doi |-> d, title |-> t, pmid |-> p, abstract |-> a, author |-> "au"]
Shapes == {Entry("d1", "t1", "p1", Absent),      \* everything but the abstract
           Entry(Absent, "t1", Absent, Absent),  \* title only
           Entry(Absent, "t1", "p1", "a0"),      \* has an abstract already
           Entry(Empty, Empty, Empty, Empty),    \* every field the empty string
           Entry("d1", Absent, Absent, Absent),  \* DOI only
           Entry(Absent, Absent, Absent, Absent)}
Files  == SeqsUpTo(Shapes, MaxRecords)

Has(e, f) == e[f] # Absent                        \* f in entry
\* the abstract check with its truth test inverted
HasAbstractInverted(e) == Has(e, "abstract") /\ ~Truthy(e["abstract"])
\* 'abstract' in entry and entry['abstract']
HasAbstract(e) == Has(e, "abstract") /\ Truthy(e["abstract"])

\* the discovery search is due for the record: no non-empty DOI, a title
DiscoveryDue(e) == ~Truthy(e["doi"]) /\ Has(e, "title")

NoStats == [total |-> 0, enriched |-> 0, failed |-> 0, already_had_abstract |-> 0]
NoLast  == [step |-> "none", fail |-> "none", exc |-> "none"]
NotSaved == [writes |-> 0, entries |-> <<>>]

\* what the engine's calls are answered with: a search returns one candidate
\* at most, an endpoint fails steadily or once
EngineStatusSeqs == {AllOk, AllFail("transient"), AllFail("notfound"), ThenOk("transient")}
\* a lookup that finds an abstract finds one with markup in it
EngineLookupPayloads == {Payload("ok", a, <<>>) : a \in {Absent, Empty, "<p>abs</p>"}}
                          \cup {Payload(k, Absent, <<>>) : k \in Malformed \cup {"empty"}}
EngineLookupEnvs == {Env(s, q, AllOk, NoPayload) :
                        s \in EngineStatusSeqs, q \in EngineLookupPayloads}
EngineSearchPayloads == {Payload("ok", Absent, <<c>>) : c \in Cand}
                          \cup {Payload(k, Absent, <<>>) : k \in Malformed \cup {"ok"}}
EngineSecond == {<<AllOk, Payload("ok", "abs", <<>>)>>,
                 <<AllOk, Payload("ok", Absent, <<>>)>>,
                 <<AllFail("transient"), NoPayload>>}
EngineSearchEnvs == {Env(s, q, x[1], x[2]) :
                        s \in EngineStatusSeqs, q \in EngineSearchPayloads, x \in EngineSecond}
EngineEnvs(m) == IF m \in Lookups THEN EngineLookupEnvs ELSE EngineSearchEnvs

\* what enrich_entry sees of one call "data = client.method(...)" followed by
\* "if data: abstract = client.get_abstract(data)": the exception that
\* escaped, the DOI of the returned record, the abstract extracted
Outcome(m, env) ==
    LET r  == Apply(m, env)
        ab == IF r.exc = "none" /\ DataTruthy(r.data)
              THEN GetAbstract(m, r.data)
              ELSE [val |-> Absent, exc |-> "none"]
    IN  [exc  |-> IF r.exc # "none" THEN r.exc ELSE ab.exc,
         val  |-> ab.val,
         id   |-> IF r.exc = "none" /\ DataTruthy(r.data) THEN r.data.id ELSE Absent,
         fail |-> r.fail]
\* the search of the discovery step: no abstract is extracted from its result
DiscoveryOutcome(env) ==
    LET r == CrossrefSearchByTitle(env)
    IN  [exc  |-> r.exc,
         val  |-> Absent,
         id   |-> IF r.exc = "none" /\ DataTruthy(r.data) THEN r.data.id ELSE Absent,
         fail |-> r.fail]
Outcomes == [m \in Methods |-> {Outcome(m, env) : env \in EngineEnvs(m)}]
DiscoveryOutcomes == {DiscoveryOutcome(env) : env \in EngineSearchEnvs}

\* the order with the Semantic Scholar blocks before the Crossref blocks
AfterSwapped(step) ==
    CASE step = "discover"  -> "els_doi"
      [] step = "els_doi"   -> "els_title"
      [] step = "els_title" -> "pm_pmid"
      [] step = "pm_pmid"   -> "pm_title"
      [] step = "pm_title"  -> "ss_doi"
      [] step = "ss_doi"    -> "ss_title"
      [] step = "ss_title"  -> "cr_doi"
      [] step = "cr_doi"    -> "cr_title"
      [] step = "cr_title"  -> "count"

\* the Crossref title search placed before the Crossref DOI lookup
AfterTitleFirst(step) ==
    CASE step = "discover"  -> "els_doi"
      [] step = "els_doi"   -> "els_title"
      [] step = "els_title" -> "pm_pmid"
      [] step = "pm_pmid"   -> "pm_title"
      [] step = "pm_title"  -> "cr_title"
      [] step = "cr_title"  -> "cr_doi"
      [] step = "cr_doi"    -> "ss_doi"
      [] step = "ss_doi"    -> "ss_title"
      [] step = "ss_title"  -> "count"

(* The order of the blocks of enrich_entry *)
After(step) ==
    CASE step = "discover"  -> "els_doi"
      [] step = "els_doi"   -> "els_title"
      [] step = "els_title" -> "pm_pmid"
      [] step = "pm_pmid"   -> "pm_title"
      [] step = "pm_title"  -> "cr_doi"
      [] step = "cr_doi"    -> "cr_title"
      [] step = "cr_title"  -> "ss_doi"
      [] step = "ss_doi"    -> "ss_title"
      [] step = "ss_title"  -> "count"

\* a block without the "return entry" after the assignment
GotoNoReturn(step, exc, got) ==
    IF exc # "none" THEN "raised" ELSE After(step)

\* where a step goes once its abstract is extracted: "return entry" on a
\* non-empty abstract, the next block otherwise; an exception leaves
\* enrich_entry and enrich_file
Goto(step, exc, got) ==
    IF exc # "none" THEN "raised" ELSE IF got THEN "count" ELSE After(step)

\* the update with "else" for "elif": an enriched record counts as failed too
CountStatsNoElif(st, had, e) ==
    IF had THEN [st EXCEPT !.already_had_abstract = @ + 1]
    ELSE IF HasAbstract(e) THEN [st EXCEPT !.enriched = @ + 1, !.failed = @ + 1]
    ELSE [st EXCEPT !.failed = @ + 1]

\* the stats update of enrich_file for one processed record
CountStats(st, had, e) ==
    IF had THEN [st EXCEPT !.already_had_abstract = @ + 1]
    ELSE IF HasAbstract(e) THEN [st EXCEPT !.enriched = @ + 1]
    ELSE [st EXCEPT !.failed = @ + 1]

otherVars == <<clientVars, processVars, textVars, cliVars>>

TypeOK ==
    /\ elsevier \in BOOLEAN /\ pubmed \in BOOLEAN
    /\ i \in 0..MaxRecords + 1
    /\ Len(entries) = Len(loaded)

\* the variables of the other specifications, at rest
NoCall     == [phase |-> "idle", r |-> Res(None, "none", <<>>, <<>>, "none"),
               ab |-> [val |-> Absent, exc |-> "none"]]
NoLookups  == [e |-> 0, p |-> "none", n |-> 0, warm |-> FALSE]
\* Bio.Entrez as imported: email = None, api_key = None
EntrezUnset == [email |-> Absent, api_key |-> Absent]
NoneBuilt  == [cls |-> "none", credential |-> Absent, exc |-> "none", session |-> "none"]
ClientIdle ==
    /\ cl_method = "none"
    /\ cl_env = Env(AllOk, NoPayload, AllOk, NoPayload)
    /\ cl_res = NoCall
ProcessIdle ==
    /\ session_factory = "Session"
    /\ enrichers = <<>>
    /\ store = {}
    /\ issued = NoLookups
    /\ network = 0
    /\ entrez = EntrezUnset
    /\ built = NoneBuilt
TextIdle ==
    /\ titleA = <<>> /\ titleB = <<>>
    /\ cleaned = <<>>
    /\ similarity = Ratio(0, 0)
    /\ raw = <<>>
    /\ abstract = CleanAbstract(<<>>)
    /\ applied = {}
NoPath == [parent |-> ".", name |-> <<>>]
NoArgv == [input_file |-> NoPath, output |-> Absent, dry_run |-> FALSE]
CliIdle ==
    /\ argv = NoArgv
    /\ fs = "ok"
    /\ output_path = NoPath
    /\ summary = <<>>
    /\ exit_status = 0
    /\ cli_pc = "off"
EngineIdle ==
    /\ elsevier = FALSE /\ pubmed = FALSE
    /\ args = [use_elsevier |-> TRUE, use_pubmed |-> TRUE,
               use_semantic_scholar |-> TRUE, dry_run |-> FALSE]
    /\ entries = <<>> /\ loaded = <<>> /\ i = 0 /\ pc = "off"
    /\ doi = Absent /\ had_abstract = FALSE /\ stats = NoStats
    /\ calls = <<>> /\ last = NoLast /\ saved = NotSaved

\* an enricher with or without the Elsevier key and the PubMed email, and
\* the flags enrich_file is called with (a provider is switched off by its
\* flag or by its missing credential, not by both at once)
Init ==
    /\ elsevier \in BOOLEAN
    /\ pubmed \in BOOLEAN
    /\ args \in [use_elsevier : BOOLEAN, use_pubmed : BOOLEAN,
                 use_semantic_scholar : BOOLEAN, dry_run : BOOLEAN]
    /\ elsevier \/ args.use_elsevier
    /\ pubmed \/ args.use_pubmed
    /\ entries \in Files
    /\ loaded = entries
    /\ i = 0
    /\ pc = "start"
    /\ doi = Absent
    /\ had_abstract = FALSE
    /\ stats = NoStats
    /\ calls = <<>>
    /\ last = NoLast
    /\ saved = NotSaved
    /\ ClientIdle
    /\ ProcessIdle
    /\ TextIdle
    /\ CliIdle

\* enrich_file: stats, load_bibtex, stats['total']
Load ==
    /\ pc = "start"
    /\ stats' = [NoStats EXCEPT !.total = Len(entries)]
    /\ i' = 1
    /\ pc' = IF Len(entries) = 0 THEN "save" ELSE "entry"
    /\ UNCHANGED <<elsevier, pubmed, args, entries, loaded, doi, had_abstract,
                   calls, last, saved, otherVars>>

\* the start of a record with the abstract check of enrich_entry left out
BeginEntryNoAbstractCheck ==
    /\ pc = "entry"
    /\ had_abstract' = HasAbstract(entries[i])
    /\ calls' = <<>>
    /\ last' = NoLast
    /\ doi' = Absent
    /\ pc' = IF args.dry_run THEN "count" ELSE "discover"
    /\ UNCHANGED <<elsevier, pubmed, args, entries, loaded, i, stats, saved, otherVars>>

\* enrich_file: had_abstract; enrich_entry: the dry_run and abstract checks
BeginEntry ==
    /\ pc = "entry"
    /\ had_abstract' = HasAbstract(entries[i])
    /\ calls' = <<>>
    /\ last' = NoLast
    /\ doi' = Absent
    /\ pc' = IF args.dry_run \/ HasAbstract(entries[i]) THEN "count" ELSE "discover"
    /\ UNCHANGED <<elsevier, pubmed, args, entries, loaded, i, stats, saved, otherVars>>

\* the discovery step without "entry['doi'] = doi"
DiscoverNoStore ==
    /\ pc = "discover"
    /\ IF ~Truthy(entries[i]["doi"]) /\ Has(entries[i], "title")
       THEN \E o \in DiscoveryOutcomes :
              LET found == o.exc = "none" /\ o.id # Absent
              IN  /\ doi' = IF found THEN o.id ELSE entries[i]["doi"]
                  /\ entries' = entries
                  /\ calls' = Append(calls, [step |-> "discover", got |-> FALSE,
                                             val |-> Absent,
                                             arg |-> entries[i]["title"],
                                             doi |-> IF found THEN o.id ELSE Absent])
                  /\ last' = [step |-> "discover", fail |-> o.fail, exc |-> o.exc]
                  /\ pc' = Goto("discover", o.exc, FALSE)
       ELSE /\ doi' = entries[i]["doi"]
            /\ pc' = After("discover")
            /\ UNCHANGED <<entries, calls, last>>
    /\ UNCHANGED <<elsevier, pubmed, args, loaded, i, had_abstract, stats, saved, otherVars>>

\* the discovery step with "if 'title' in entry" for "if not doi and ..."
DiscoverAlways ==
    /\ pc = "discover"
    /\ IF Has(entries[i], "title")
       THEN \E o \in DiscoveryOutcomes :
              LET found == o.exc = "none" /\ o.id # Absent
              IN  /\ doi' = IF found THEN o.id ELSE entries[i]["doi"]
                  /\ entries' = IF found THEN [entries EXCEPT ![i]["doi"] = o.id]
                                ELSE entries
                  /\ calls' = Append(calls, [step |-> "discover", got |-> FALSE,
                                             val |-> Absent,
                                             arg |-> entries[i]["title"],
                                             doi |-> IF found THEN o.id ELSE Absent])
                  /\ last' = [step |-> "discover", fail |-> o.fail, exc |-> o.exc]
                  /\ pc' = Goto("discover", o.exc, FALSE)
       ELSE /\ doi' = entries[i]["doi"]
            /\ pc' = After("discover")
            /\ UNCHANGED <<entries, calls, last>>
    /\ UNCHANGED <<elsevier, pubmed, args, loaded, i, had_abstract, stats, saved, otherVars>>

\* enrich_entry: "Try to get DOI from Crossref title search first".  The log
\* keeps the title searched for and the DOI taken from the result.
Discover ==
    /\ pc = "discover"
    /\ IF ~Truthy(entries[i]["doi"]) /\ Has(entries[i], "title")
       THEN \E o \in DiscoveryOutcomes :
              LET found == o.exc = "none" /\ o.id # Absent
              IN  /\ doi' = IF found THEN o.id ELSE entries[i]["doi"]
                  /\ entries' = IF found THEN [entries EXCEPT ![i]["doi"] = o.id]
                                ELSE entries
                  /\ calls' = Append(calls, [step |-> "discover", got |-> FALSE,
                                             val |-> Absent,
                                             arg |-> entries[i]["title"],
                                             doi |-> IF found THEN o.id ELSE Absent])
                  /\ last' = [step |-> "discover", fail |-> o.fail, exc |-> o.exc]
                  /\ pc' = Goto("discover", o.exc, FALSE)
       ELSE /\ doi' = entries[i]["doi"]
            /\ pc' = After("discover")
            /\ UNCHANGED <<entries, calls, last>>
    /\ UNCHANGED <<elsevier, pubmed, args, loaded, i, had_abstract, stats, saved, otherVars>>

\* the argument a block passes to its method: the local doi, the record's
\* pmid or the record's title
Argument(m, e, d) ==
    IF m = "pubmed.get_by_pmid" THEN e["pmid"]
    ELSE IF m \in Lookups THEN d
    ELSE e["title"]

\* a block with "if abstract is not None" for "if abstract"
BlockAcceptsEmpty(step, cond, m) ==
    /\ pc = step
    /\ IF cond
       THEN \E o \in Outcomes[m] :
              LET got == o.exc = "none" /\ o.val # Absent
              IN  /\ entries' = IF got THEN [entries EXCEPT ![i]["abstract"] = o.val]
                                ELSE entries
                  /\ calls' = Append(calls, [step |-> step, got |-> got,
                                             val |-> IF got THEN o.val ELSE Absent,
                                             arg |-> Argument(m, entries[i], doi),
                                             doi |-> Absent])
                  /\ last' = [step |-> step, fail |-> o.fail, exc |-> o.exc]
                  /\ pc' = Goto(step, o.exc, got)
       ELSE /\ pc' = After(step)
            /\ UNCHANGED <<entries, calls, last>>
    /\ UNCHANGED <<elsevier, pubmed, args, loaded, i, doi, had_abstract, stats,
                   saved, otherVars>>

\* a block that rebuilds the record from the fields enrich_entry reads and
\* drops the others
BlockRebuildsEntry(step, cond, m) ==
    /\ pc = step
    /\ IF cond
       THEN \E o \in Outcomes[m] :
              LET got == o.exc = "none" /\ Truthy(o.val)
              IN  /\ entries' = IF got
                                THEN [entries EXCEPT ![i] =
                                        [doi |-> @["doi"], title |-> @["title"],
                                         pmid |-> @["pmid"], abstract |-> o.val,
                                         author |-> Absent]]
                                ELSE entries
                  /\ calls' = Append(calls, [step |-> step, got |-> got,
                                             val |-> IF got THEN o.val ELSE Absent,
                                             arg |-> Argument(m, entries[i], doi),
                                             doi |-> Absent])
                  /\ last' = [step |-> step, fail |-> o.fail, exc |-> o.exc]
                  /\ pc' = Goto(step, o.exc, got)
       ELSE /\ pc' = After(step)
            /\ UNCHANGED <<entries, calls, last>>
    /\ UNCHANGED <<elsevier, pubmed, args, loaded, i, doi, had_abstract, stats,
                   saved, otherVars>>

\* one lookup-or-search block of enrich_entry: call the method, extract the
\* abstract, assign it and return when it is non-empty
Block(step, cond, m) ==
    /\ pc = step
    /\ IF cond
       THEN \E o \in Outcomes[m] :
              LET got == o.exc = "none" /\ Truthy(o.val)
              IN  /\ entries' = IF got THEN [entries EXCEPT ![i]["abstract"] = o.val]
                                ELSE entries
                  /\ calls' = Append(calls, [step |-> step, got |-> got,
                                             val |-> IF got THEN o.val ELSE Absent,
                                             arg |-> Argument(m, entries[i], doi),
                                             doi |-> Absent])
                  /\ last' = [step |-> step, fail |-> o.fail, exc |-> o.exc]
                  /\ pc' = Goto(step, o.exc, got)
       ELSE /\ pc' = After(step)
            /\ UNCHANGED <<entries, calls, last>>
    /\ UNCHANGED <<elsevier, pubmed, args, loaded, i, doi, had_abstract, stats,
                   saved, otherVars>>

ElsevierDoi ==
    Block("els_doi", args.use_elsevier /\ elsevier /\ Truthy(doi),
          "elsevier.get_by_doi")
ElsevierTitle ==
    Block("els_title", args.use_elsevier /\ elsevier /\ Has(entries[i], "title"),
          "elsevier.search_by_title")
PubMedPmid ==
    Block("pm_pmid", args.use_pubmed /\ pubmed /\ Has(entries[i], "pmid"),
          "pubmed.get_by_pmid")
PubMedTitle ==
    Block("pm_title", args.use_pubmed /\ pubmed /\ Has(entries[i], "title"),
          "pubmed.search_by_title")
CrossrefDoi ==
    Block("cr_doi", Truthy(doi), "crossref.get_by_doi")
\* the Crossref title search skipped when the discovery step already made it
CrossrefTitleOnce ==
    Block("cr_title", Has(entries[i], "title") /\ ~DiscoveryDue(loaded[i]),
          "crossref.search_by_title")
CrossrefTitle ==
    Block("cr_title", Has(entries[i], "title"),
          "crossref.search_by_title")
SemanticScholarDoi ==
    Block("ss_doi", args.use_semantic_scholar /\ Truthy(doi),
          "semantic_scholar.get_by_doi")
\* the Semantic Scholar title search outside "if use_semantic_scholar:"
SemanticScholarTitleNoFlag ==
    Block("ss_title", Has(entries[i], "title"), "semantic_scholar.search_by_title")
SemanticScholarTitle ==
    Block("ss_title", args.use_semantic_scholar /\ Has(entries[i], "title"),
          "semantic_scholar.search_by_title")

\* BibTexWriter.order_entries_by = ('author', 'year', 'title'): the key of a
\* record.  The records of the model share their author and have no year,
\* and a missing title sorts as the empty string, before "t1".
entry_sort_key(e) == IF Truthy(e["title"]) THEN 1 ELSE 0
\* BibIO.save_bibtex: the entries as written, in a stable sort by that key
save_bibtex(es) ==
    SelectSeq(es, LAMBDA e : entry_sort_key(e) = 0)
      \o SelectSeq(es, LAMBDA e : entry_sort_key(e) = 1)

\* the counting step with save_bibtex called inside the loop
CountSaving ==
    /\ pc = "count"
    /\ stats' = CountStats(stats, had_abstract, entries[i])
    /\ IF i < Len(entries) THEN i' = i + 1 /\ pc' = "entry"
                           ELSE i' = i /\ pc' = "save"
    /\ saved' = IF args.dry_run THEN saved
                 ELSE [writes |-> saved.writes + 1, entries |-> save_bibtex(entries)]
    /\ UNCHANGED <<elsevier, pubmed, args, entries, loaded, doi, had_abstract,
                   calls, last, otherVars>>

\* the counting step that leaves a record of a dry run without abstract
\* uncounted
CountDryRunUncounted ==
    /\ pc = "count"
    /\ stats' = IF args.dry_run /\ ~had_abstract THEN stats
                ELSE CountStats(stats, had_abstract, entries[i])
    /\ IF i < Len(entries) THEN i' = i + 1 /\ pc' = "entry"
                           ELSE i' = i /\ pc' = "save"
    /\ UNCHANGED <<elsevier, pubmed, args, entries, loaded, doi, had_abstract,
                   calls, last, saved, otherVars>>

\* enrich_file: the counters after enrich_entry returned, then the next record
Count ==
    /\ pc = "count"
    /\ stats' = CountStats(stats, had_abstract, entries[i])
    /\ IF i < Len(entries) THEN i' = i + 1 /\ pc' = "entry"
                           ELSE i' = i /\ pc' = "save"
    /\ UNCHANGED <<elsevier, pubmed, args, entries, loaded, doi, had_abstract,
                   calls, last, saved, otherVars>>

\* the end of enrich_file with the test of dry_run left out
SaveAlways ==
    /\ pc = "save"
    /\ saved' = [writes |-> saved.writes + 1, entries |-> save_bibtex(entries)]
    /\ pc' = "done"
    /\ UNCHANGED <<elsevier, pubmed, args, entries, loaded, i, doi, had_abstract,
                   stats, calls, last, otherVars>>

\* enrich_file: "if not dry_run: BibIO.save_bibtex(bib_db, output_path)"
Save ==
    /\ pc = "save"
    /\ saved' = IF args.dry_run THEN saved
                 ELSE [writes |-> saved.writes + 1, entries |-> save_bibtex(entries)]
    /\ pc' = "done"
    /\ UNCHANGED <<elsevier, pubmed, args, entries, loaded, i, doi, had_abstract,
                   stats, calls, last, otherVars>>

Next ==
    \/ Load \/ BeginEntry \/ Discover
    \/ ElsevierDoi \/ ElsevierTitle \/ PubMedPmid \/ PubMedTitle
    \/ CrossrefDoi \/ CrossrefTitle \/ SemanticScholarDoi \/ SemanticScholarTitle
    \/ Count \/ Save

Spec == Init /\ [][Next]_vars

\* enrich_entry on one record: the file holds a single record, whose doi,
\* title, pmid and abstract are each missing, the empty string or set
FieldVals(v) == {Absent, Empty, v}
Records == {Entry(d, t, p, a) : d \in FieldVals("d1"), t \in FieldVals("t1"),
                                p \in FieldVals("p1"), a \in FieldVals("a0")}
InitEntry ==
    /\ elsevier \in BOOLEAN
    /\ pubmed \in BOOLEAN
    /\ args \in [use_elsevier : BOOLEAN, use_pubmed : BOOLEAN,
                 use_semantic_scholar : BOOLEAN, dry_run : BOOLEAN]
    /\ elsevier \/ args.use_elsevier
    /\ pubmed \/ args.use_pubmed
    /\ entries \in {<<e>> : e \in Records}
    /\ loaded = entries
    /\ i = 0
    /\ pc = "start"
    /\ doi = Absent
    /\ had_abstract = FALSE
    /\ stats = NoStats
    /\ calls = <<>>
    /\ last = NoLast
    /\ saved = NotSaved
    /\ ClientIdle
    /\ ProcessIdle
    /\ TextIdle
    /\ CliIdle
SpecEntry == InitEntry /\ [][Next]_vars

----------------------------------------------------------------------------
(* SpecClient: one client method applied to one environment, then           *)
(* get_abstract applied to what it returned.                                *)
SecondEnvs == {<<AllOk, Payload("ok", "abs", <<>>)>>,
               <<AllOk, Payload("ok", Absent, <<>>)>>,
               <<AllOk, Payload("nokey", Absent, <<>>)>>,
               <<AllOk, Payload("badtype", Absent, <<>>)>>,
               <<ThenOk("transient"), Payload("ok", "abs", <<>>)>>,
               <<AllFail("transient"), NoPayload>>,
               <<AllFail("notfound"), NoPayload>>}
\* the thresholds a search is called with: the default and 0.0
MinSims == {0, MinSimilarity}
ClientEnvs(m) ==
    IF m \in Lookups THEN LookupEnvs
    ELSE {[Env(s, q, x[1], x[2]) EXCEPT !.min_similarity = t] :
            s \in SteadySeqs, q \in SearchPayloads(MaxCands), x \in SecondEnvs,
            t \in MinSims}

InitClient ==
    /\ cl_method \in Methods
    /\ cl_env \in ClientEnvs(cl_method)
    /\ cl_res = NoCall
    /\ EngineIdle
    /\ ProcessIdle
    /\ TextIdle
    /\ CliIdle

ClientCall ==
    /\ cl_res.phase = "idle"
    /\ cl_res' = [cl_res EXCEPT !.phase = "called", !.r = Apply(cl_method, cl_env)]
    /\ UNCHANGED <<cl_method, cl_env, engineVars, processVars, textVars, cliVars>>

\* "if data: abstract = client.get_abstract(data)"
ClientExtract ==
    /\ cl_res.phase = "called"
    /\ cl_res.r.exc = "none"
    /\ DataTruthy(cl_res.r.data)
    /\ cl_res' = [cl_res EXCEPT !.phase = "extracted",
                                !.ab = GetAbstract(cl_method, cl_res.r.data)]
    /\ UNCHANGED <<cl_method, cl_env, engineVars, processVars, textVars, cliVars>>

NextClient == ClientCall \/ ClientExtract
SpecClient == InitClient /\ [][NextClient]_vars

(* SpecRetry: every method on every sequence of request statuses, the search *)
(* responses holding at most one candidate.                                  *)
RetryEnvs(m) ==
    IF m \in Lookups THEN LookupEnvs
    ELSE {Env(s, q, x[1], x[2]) :
            s \in StatusSeqs, q \in SearchPayloads(1), x \in SecondEnvs}
InitRetry ==
    /\ cl_method \in Methods
    /\ cl_env \in RetryEnvs(cl_method)
    /\ cl_res = NoCall
    /\ EngineIdle /\ ProcessIdle /\ TextIdle /\ CliIdle
SpecRetry == InitRetry /\ [][NextClient]_vars

(* SpecSearch: the title searches at the default threshold, the search      *)
(* request answered at once or after one transient failure.                 *)
SearchCallEnvs ==
    {Env(s, q, x[1], x[2]) :
        s \in {AllOk, ThenOk("transient")}, q \in SearchPayloads(MaxCands),
        x \in SecondEnvs}
InitSearch ==
    /\ cl_method \in Searches
    /\ cl_env \in SearchCallEnvs
    /\ cl_res = NoCall
    /\ EngineIdle /\ ProcessIdle /\ TextIdle /\ CliIdle
SpecSearch == InitSearch /\ [][NextClient]_vars

----------------------------------------------------------------------------
(* SpecProcess: BibTeXEnricher objects constructed in one Python process    *)
(* and identical identifier lookups sent through their clients.             *)
(* requests_cache.install_cache(name) rebinds requests.Session to a cached  *)
(* session class: sessions created afterwards read and fill the cache       *)
(* "name", sessions created before stay plain.  Bio.Entrez does not use     *)
(* requests.                                                                *)
CachePaths == {Absent, "c1"}
Providers  == {"crossref", "semantic_scholar", "elsevier", "pubmed"}

Emails == {Absent, Empty, "e1", "e2"}
Keys   == {Absent, Empty, "k1"}

\* ElsevierAPI.__init__: ValueError before the session is created
NewElsevierAPI(factory, api_key) ==
    IF ~Truthy(api_key)
    THEN [cls |-> "ElsevierAPI", credential |-> api_key, exc |-> "ValueError",
          session |-> "none"]
    ELSE [cls |-> "ElsevierAPI", credential |-> api_key, exc |-> "none",
          session |-> factory]
\* PubMedAPI.__init__ without the test of the email
NewPubMedAPINoCheck(email) ==
    [cls |-> "PubMedAPI", credential |-> email, exc |-> "none", session |-> "urllib"]
\* PubMedAPI.__init__: ValueError before Entrez.email is assigned
NewPubMedAPI(email) ==
    IF ~Truthy(email)
    THEN [cls |-> "PubMedAPI", credential |-> email, exc |-> "ValueError",
          session |-> "none"]
    ELSE [cls |-> "PubMedAPI", credential |-> email, exc |-> "none",
          session |-> "urllib"]
\* Entrez.email = email; if api_key: Entrez.api_key = api_key
EntrezAfter(ez, email, api_key) ==
    IF ~Truthy(email) THEN ez
    ELSE [email |-> email, api_key |-> IF Truthy(api_key) THEN api_key ELSE ez.api_key]

\* BibTeXEnricher.__init__: the four clients first, install_cache last; the
\* PubMed and Elsevier clients are constructed only with their credential
NewEnricher(factory, cache_path, pubmed_email, elsevier_api_key) ==
    [cache_path       |-> cache_path,
     pubmed_email     |-> pubmed_email,
     elsevier_api_key |-> elsevier_api_key,
     exc              |-> "none",
     crossref         |-> factory,
     semantic_scholar |-> factory,
     pubmed           |-> IF Truthy(pubmed_email)
                          THEN NewPubMedAPI(pubmed_email).session ELSE "none",
     elsevier         |-> IF Truthy(elsevier_api_key)
                          THEN NewElsevierAPI(factory, elsevier_api_key).session
                          ELSE "none"]
FactoryAfter(factory, cache_path) ==
    IF cache_path # Absent THEN cache_path ELSE factory

\* BibTeXEnricher(pubmed_email=..., elsevier_api_key=..., cache_path=...),
\* pubmed_api_key left at None
Construct ==
    /\ Len(enrichers) < MaxEnrichers
    /\ \E cache_path \in CachePaths, pubmed_email \in {Absent, "e1"},
          elsevier_api_key \in {Absent, "k1"} :
         /\ enrichers' = Append(enrichers, NewEnricher(session_factory, cache_path,
                                                       pubmed_email, elsevier_api_key))
         /\ session_factory' = FactoryAfter(session_factory, cache_path)
         /\ entrez' = EntrezAfter(entrez, pubmed_email, Absent)
    /\ UNCHANGED <<store, issued, network, built, engineVars, clientVars, textVars, cliVars>>

\* ElsevierAPI(api_key) constructed on its own
ConstructElsevier ==
    /\ \E api_key \in Keys : built' = NewElsevierAPI(session_factory, api_key)
    /\ UNCHANGED <<session_factory, enrichers, store, issued, network, entrez,
                   engineVars, clientVars, textVars, cliVars>>

\* PubMedAPI(email, api_key) constructed on its own
ConstructPubMed ==
    /\ \E email \in Emails, api_key \in {Absent, "k1"} :
         /\ built' = NewPubMedAPI(email)
         /\ entrez' = EntrezAfter(entrez, email, api_key)
    /\ UNCHANGED <<session_factory, enrichers, store, issued, network,
                   engineVars, clientVars, textVars, cliVars>>

\* n identical identifier lookups in a row through client p of enricher e,
\* every request answered 200: a cached session asks the network only for a
\* signature its cache does not hold, and stores the response
Lookup ==
    \E e \in 1..Len(enrichers), p \in Providers, n \in 1..MaxLookups :
      LET session == enrichers[e][p]
          cached  == session \notin {"Session", "urllib"}
          sig     == <<session, p>>
      IN  /\ session # "none"
          /\ issued' = [e |-> e, p |-> p, n |-> n, warm |-> cached /\ sig \in store]
          /\ network' = IF ~cached THEN n ELSE IF sig \in store THEN 0 ELSE 1
          /\ store' = IF cached THEN store \cup {sig} ELSE store
          /\ UNCHANGED <<session_factory, enrichers, entrez, built, engineVars,
                         clientVars, textVars, cliVars>>

InitProcess ==
    /\ ProcessIdle
    /\ EngineIdle
    /\ ClientIdle
    /\ TextIdle
    /\ CliIdle

NextProcess == Construct \/ Lookup
SpecProcess == InitProcess /\ [][NextProcess]_vars

(* SpecConstruct: constructions of enrichers and of single clients in one   *)
(* Python process.                                                          *)
NextConstruct == Construct \/ ConstructElsevier \/ ConstructPubMed
SpecConstruct == InitProcess /\ [][NextConstruct]_vars

----------------------------------------------------------------------------
(* SpecTitle: clean_title and title_similarity on a pair of titles *)
InitTitle ==
    /\ titleA \in Titles /\ titleB \in Titles
    /\ cleaned = <<>>
    /\ similarity = Ratio(0, 0)
    /\ raw = <<>>
    /\ abstract = CleanAbstract(<<>>)
    /\ applied = {}
    /\ EngineIdle /\ ClientIdle /\ ProcessIdle /\ CliIdle

CleanTitle ==
    /\ "clean_title" \notin applied
    /\ cleaned' = clean_title(titleA)
    /\ applied' = applied \cup {"clean_title"}
    /\ UNCHANGED <<titleA, titleB, similarity, raw, abstract,
                   engineVars, clientVars, processVars, cliVars>>

TitleSimilarity ==
    /\ "title_similarity" \notin applied
    /\ similarity' = title_similarity(titleA, titleB)
    /\ applied' = applied \cup {"title_similarity"}
    /\ UNCHANGED <<titleA, titleB, cleaned, raw, abstract,
                   engineVars, clientVars, processVars, cliVars>>

NextTitle == CleanTitle \/ TitleSimilarity
SpecTitle == InitTitle /\ [][NextTitle]_vars

(* SpecCleaner: BibTeXCleaner.clean_abstract on one text *)
InitCleaner ==
    /\ titleA = <<>> /\ titleB = <<>>
    /\ cleaned = <<>>
    /\ similarity = Ratio(0, 0)
    /\ raw \in AbstractTexts
    /\ abstract = CleanAbstract(<<>>)
    /\ applied = {}
    /\ EngineIdle /\ ClientIdle /\ ProcessIdle /\ CliIdle

ApplyCleanAbstract ==
    /\ "clean_abstract" \notin applied
    /\ abstract' = CleanAbstract(raw)
    /\ applied' = applied \cup {"clean_abstract"}
    /\ UNCHANGED <<titleA, titleB, cleaned, similarity, raw,
                   engineVars, clientVars, processVars, cliVars>>

NextCleaner == ApplyCleanAbstract
SpecCleaner == InitCleaner /\ [][NextCleaner]_vars

----------------------------------------------------------------------------
(* SpecCli: main of cli.py.  A path is its parent directory and the parts   *)
(* of its file name between the dots; the credentials are given neither as  *)
(* arguments nor in the environment, so the enricher has no PubMed and no   *)
(* Elsevier client, and no provider is disabled by a flag.                   *)
InputPaths == {[parent |-> ".",   name |-> <<"refs", "bib">>],
               [parent |-> "dir", name |-> <<"refs">>],
               [parent |-> "dir", name |-> <<"a", "tar", "bib">>]}
Outputs    == {Absent, Empty, "out/o.bib"}
\* Path(args.output)
PathOf(o) == [parent |-> "out", name |-> <<"o", "bib">>]
\* Path.stem: the file name without its last suffix
Stem(path) == IF Len(path.name) > 1 THEN SubSeq(path.name, 1, Len(path.name) - 1)
              ELSE path.name
\* Path.name
Name(path) == path.name
\* f"{name}_with_abstracts.bib"
WithAbstracts(name) ==
    SubSeq(name, 1, Len(name) - 1) \o <<name[Len(name)] \o "_with_abstracts", "bib">>
Summary(st) == <<st.total, st.already_had_abstract, st.enriched, st.failed>>

InitCli ==
    /\ argv \in [input_file : InputPaths, output : Outputs, dry_run : BOOLEAN]
    /\ fs \in {"missing", "unreadable", "ok"}
    /\ output_path = NoPath
    /\ summary = <<>>
    /\ exit_status = 0
    /\ cli_pc = "main"
    /\ EngineIdle /\ ClientIdle /\ ProcessIdle /\ TextIdle

\* "Validate input file": sys.exit(1) when the path does not exist
Validate ==
    /\ cli_pc = "main"
    /\ IF fs = "missing"
       THEN exit_status' = 1 /\ cli_pc' = "exited"
       ELSE exit_status' = exit_status /\ cli_pc' = "output"
    /\ UNCHANGED <<argv, fs, output_path, summary,
                   engineVars, clientVars, processVars, textVars>>

\* the default output path built from the whole file name
SetOutputFromName ==
    /\ cli_pc = "output"
    /\ output_path' = IF Truthy(argv.output) THEN PathOf(argv.output)
                      ELSE [parent |-> argv.input_file.parent,
                            name   |-> WithAbstracts(Name(argv.input_file))]
    /\ cli_pc' = "construct"
    /\ UNCHANGED <<argv, fs, summary, exit_status,
                   engineVars, clientVars, processVars, textVars>>

\* "Set default output path if not specified"
SetOutput ==
    /\ cli_pc = "output"
    /\ output_path' = IF Truthy(argv.output) THEN PathOf(argv.output)
                      ELSE [parent |-> argv.input_file.parent,
                            name   |-> WithAbstracts(Stem(argv.input_file))]
    /\ cli_pc' = "construct"
    /\ UNCHANGED <<argv, fs, summary, exit_status,
                   engineVars, clientVars, processVars, textVars>>

\* BibTeXEnricher(...) with pubmed_email and elsevier_api_key None
NewCliEnricher ==
    /\ cli_pc = "construct"
    /\ elsevier' = FALSE /\ pubmed' = FALSE
    /\ cli_pc' = "enrich"
    /\ UNCHANGED <<args, entries, loaded, i, pc, doi, had_abstract, stats, calls,
                   last, saved, argv, fs, output_path, summary, exit_status,
                   clientVars, processVars, textVars>>

\* enricher.enrich_file(...): load_bibtex raises on a file that cannot be
\* read; otherwise the run starts on the entries of the file
CallEnrichFile ==
    /\ cli_pc = "enrich"
    /\ args' = [use_elsevier |-> TRUE, use_pubmed |-> TRUE,
                use_semantic_scholar |-> TRUE, dry_run |-> argv.dry_run]
    /\ IF fs = "unreadable"
       THEN /\ pc' = "raised"
            /\ UNCHANGED <<entries, loaded>>
       ELSE /\ pc' = "start"
            /\ entries' \in Files
            /\ loaded' = entries'
    /\ cli_pc' = "running"
    /\ UNCHANGED <<elsevier, pubmed, i, doi, had_abstract, stats, calls, last, saved,
                   argv, fs, output_path, summary, exit_status,
                   clientVars, processVars, textVars>>

\* "Print summary", after enrich_file returned
PrintSummary ==
    /\ cli_pc = "running" /\ pc = "done"
    /\ summary' = Summary(stats)
    /\ cli_pc' = "exited"
    /\ UNCHANGED <<argv, fs, output_path, exit_status,
                   engineVars, clientVars, processVars, textVars>>

\* "except Exception": sys.exit(1)
ExitError ==
    /\ cli_pc = "running" /\ pc = "raised"
    /\ exit_status' = 1
    /\ cli_pc' = "exited"
    /\ UNCHANGED <<argv, fs, output_path, summary,
                   engineVars, clientVars, processVars, textVars>>

NextCli == Validate \/ SetOutput \/ NewCliEnricher \/ CallEnrichFile \/ Next
              \/ PrintSummary \/ ExitError
SpecCli == InitCli /\ [][NextCli]_vars

----------------------------------------------------------------------------
(* Properties *)

\* the provider a block of enrich_entry belongs to, in priority order
ProviderRank(step) ==
    CASE step \in {"els_doi", "els_title"} -> 1
      [] step \in {"pm_pmid", "pm_title"}  -> 2
      [] step \in {"cr_doi", "cr_title"}   -> 3
      [] step \in {"ss_doi", "ss_title"}   -> 4
      [] OTHER                             -> 0
RetrievalSteps == {"els_doi", "els_title", "pm_pmid", "pm_title",
                   "cr_doi", "cr_title", "ss_doi", "ss_title"}
\* the provider is enabled and has what the step needs for the current record
Wanted(step) ==
    CASE step = "els_doi"   -> args.use_elsevier /\ elsevier /\ Truthy(doi)
      [] step = "els_title" -> args.use_elsevier /\ elsevier /\ entries[i]["title"] # Absent
      [] step = "pm_pmid"   -> args.use_pubmed /\ pubmed /\ entries[i]["pmid"] # Absent
      [] step = "pm_title"  -> args.use_pubmed /\ pubmed /\ entries[i]["title"] # Absent
      [] step = "cr_doi"    -> Truthy(doi)
      [] step = "cr_title"  -> entries[i]["title"] # Absent
      [] step = "ss_doi"    -> args.use_semantic_scholar /\ Truthy(doi)
      [] step = "ss_title"  -> args.use_semantic_scholar /\ entries[i]["title"] # Absent
\* calls is the log of the record entries[i]
InRecord == pc \notin {"off", "start", "entry"} /\ i \in 1..Len(entries)
\* records whose counters are updated
Counted == IF pc \in {"save", "done"} THEN Len(entries)
           ELSE IF pc \in {"off", "start"} THEN 0 ELSE i - 1

\* C1: the abstract-retrieval calls of a record come in the order Elsevier,
\* PubMed, Crossref, Semantic Scholar: when a call of a provider is issued,
\* every call of every higher-priority provider that is enabled and
\* applicable has been made before it and returned without a non-empty
\* abstract, and none is made after it.
C1_ProviderOrder ==
    InRecord =>
      \A k \in 1..Len(calls) : \A s \in RetrievalSteps :
        (calls[k].step \in RetrievalSteps /\ ProviderRank(s) < ProviderRank(calls[k].step))
        => /\ \A j \in 1..Len(calls) : calls[j].step = s => j < k /\ ~calls[j].got
           /\ Wanted(s) => \E j \in 1..(k - 1) : calls[j].step = s
C1_Witness ==
    /\ pc = "count"
    /\ Len(calls) = 8
    /\ calls[1].step = "els_doi" /\ calls[3].step = "pm_pmid"
    /\ calls[5].step = "cr_doi" /\ calls[8].step = "ss_title"
    /\ calls[8].got

\* C2: the first step whose extracted abstract is non-empty ends the record:
\* it is the last call made for the record, the record holds that abstract
\* and enrich_entry has returned.
C2_FirstAbstractWins ==
    InRecord =>
      \A k \in 1..Len(calls) :
        calls[k].got =>
          /\ k = Len(calls)
          /\ pc \in {"count", "save", "done"}
          /\ Truthy(calls[k].val)
          /\ entries[i]["abstract"] = calls[k].val
C2_Witness ==
    /\ pc = "count"
    /\ calls # <<>>
    /\ calls[Len(calls)].step = "els_doi"
    /\ calls[Len(calls)].got
    /\ pubmed /\ args.use_pubmed /\ args.use_semantic_scholar
    /\ entries[i]["title"] # Absent

\* C3: a record loaded with a non-empty abstract causes no provider call,
\* keeps every field, and is counted under already_had_abstract.
C3_AlreadyHad ==
    /\ \A j \in 1..Len(entries) :
         Truthy(loaded[j]["abstract"]) => entries[j] = loaded[j]
    /\ (InRecord /\ Truthy(loaded[i]["abstract"])) => calls = <<>>
    /\ stats.already_had_abstract =
         Cardinality({j \in 1..Counted : Truthy(loaded[j]["abstract"])})
C3_Witness ==
    /\ pc = "done"
    /\ ~args.dry_run
    /\ Len(entries) = 2
    /\ Truthy(loaded[1]["abstract"]) /\ ~Truthy(loaded[2]["abstract"])
    /\ stats.already_had_abstract = 1
    /\ stats.enriched = 1

\* C4: the counters never decrease; after the i-th record their sum is i, at
\* the end it is total; enriched counts exactly the records that had no
\* non-empty abstract when loaded and have one now.
C4_Sum ==
    /\ stats.enriched + stats.failed + stats.already_had_abstract = Counted
    /\ pc = "done" =>
         stats.total = stats.enriched + stats.failed + stats.already_had_abstract
    /\ stats.enriched =
         Cardinality({j \in 1..Counted : /\ ~Truthy(loaded[j]["abstract"])
                                         /\ Truthy(entries[j]["abstract"])})
    /\ stats.failed =
         Cardinality({j \in 1..Counted : /\ ~Truthy(loaded[j]["abstract"])
                                         /\ ~Truthy(entries[j]["abstract"])})
C4_Monotone ==
    /\ stats'.enriched >= stats.enriched
    /\ stats'.failed >= stats.failed
    /\ stats'.already_had_abstract >= stats.already_had_abstract
C4_Counters == []C4_Sum /\ [][C4_Monotone]_vars
\* one record without abstract, only Crossref returns one: enriched 1, failed 0
C4_Witness ==
    /\ pc = "done"
    /\ Len(entries) = 1
    /\ ~Truthy(loaded[1]["abstract"])
    /\ elsevier /\ pubmed /\ args.use_elsevier /\ args.use_pubmed
    /\ calls # <<>>
    /\ calls[Len(calls)].step \in {"cr_doi", "cr_title"}
    /\ calls[Len(calls)].got
    /\ stats.enriched = 1 /\ stats.failed = 0 /\ stats.total = 1

\* C6: a provider operation whose last attempt failed transiently raises
\* nothing: no abstract comes from it, enrich_entry goes on (to a later block
\* or to its return) and enrich_file is not aborted by it.
C6_TransientNeverEscapes ==
    (InRecord /\ last.fail = "transient") =>
      /\ last.exc = "none"
      /\ pc # "raised"
      /\ calls # <<>>
      /\ calls[Len(calls)].step = last.step
      /\ ~calls[Len(calls)].got
      /\ \/ pc \in {"count", "save", "done"}
         \/ ProviderRank(pc) > ProviderRank(last.step)
         \/ (ProviderRank(pc) = ProviderRank(last.step) /\ pc # last.step)
\* a record still to come after one whose Crossref lookup failed transiently
\* in all its attempts
C6_Witness ==
    /\ pc = "count"
    /\ i = 1 /\ Len(entries) = 2
    /\ last.fail = "transient"
    /\ last.step = "cr_doi"
    /\ stats.failed = 0

\* the calls a method call made to endpoint ep
CallsTo(net, ep) == {k \in 1..Len(net) : net[k].ep = ep}
Endpoints(net)   == {net[k].ep : k \in 1..Len(net)}

\* C5: an outbound call of a lookup or search that fails transiently every
\* time (the other endpoint of the method answering) is attempted exactly 3
\* times, and the method then has no result.
C5_RetryBound ==
    (cl_res.phase # "idle" /\ cl_res.r.net # <<>>) =>
      LET net   == cl_res.r.net
          first == net[1].ep
      IN  /\ cl_env.st1 = AllFail("transient") =>
               /\ Cardinality(CallsTo(net, first)) = max_retries
               /\ cl_res.r.data = None
          /\ (cl_env.st1 = AllOk /\ cl_env.st2 = AllFail("transient")) =>
               \A ep \in Endpoints(net) \ {first} :
                 /\ Cardinality(CallsTo(net, ep)) = max_retries
                 /\ cl_res.r.data = None

\* C7: no lookup, search or abstract extraction raises on a malformed
\* payload: the method returns without an exception.
C7_MalformedIsNotFound ==
    /\ cl_res.r.exc = "none"
    /\ cl_res.ab.exc = "none"

\* C8: a NotFound answer (HTTP 404) is never retried: no further call goes
\* to an endpoint that answered 404, and the operation has no result.
C8_NotFoundNotRetried ==
    cl_res.phase # "idle" =>
      \A k \in 1..Len(cl_res.r.net) :
        cl_res.r.net[k].status = "notfound" =>
          /\ \A j \in (k + 1)..Len(cl_res.r.net) : cl_res.r.net[j].ep # cl_res.r.net[k].ep
          /\ cl_res.r.data = None

\* C9: two identical identifier lookups through a client of an enricher
\* constructed with a cache_path cause exactly one network call (none of the
\* two being in a cache beforehand).
C9_CacheTransparency ==
    (issued.n = 2 /\ ~issued.warm /\ enrichers[issued.e].cache_path # Absent)
      => network = 1

\* C10: every request of an enricher constructed without a cache_path is a
\* real network call, whatever was constructed before it.
C10_CacheOptIn ==
    (issued.n > 0 /\ enrichers[issued.e].cache_path = Absent)
      => network = issued.n

\* C11: in a dry run no provider call is made, no field of any record
\* changes and the output file is never written.
C11_DryRun ==
    args.dry_run =>
      /\ calls = <<>>
      /\ entries = loaded
      /\ saved = NotSaved
      /\ pc # "raised"
\* a finished dry run over a record with a DOI and a title and no abstract
\* and a record with an abstract
C11_Witness ==
    /\ args.dry_run
    /\ pc = "done"
    /\ Len(entries) = 2
    /\ Truthy(entries[1]["doi"]) /\ Truthy(entries[1]["title"])
    /\ ~Truthy(entries[1]["abstract"])
    /\ Truthy(entries[2]["abstract"])
    /\ elsevier /\ pubmed /\ args.use_semantic_scholar

\* C12: the abstract enrich_entry stores for a record is the output of
\* clean_abstract for the text the provider sent.
C12_StoredCleaned ==
    InRecord =>
      \A k \in 1..Len(calls) :
        calls[k].got => entries[i]["abstract"] = clean_abstract(calls[k].val)

\* the candidates a search scores, and whether its result comes from the k-th
Scored(m, env) ==
    IF m = "pubmed.search_by_title" /\ env.p2.kind = "empty" THEN <<>> ELSE env.p1.cands
DerivedFrom(m, env, r, k) ==
    LET c == Scored(m, env)[k]
    IN  CASE m \in {"crossref.search_by_title", "pubmed.search_by_title"} ->
               r.data = CandData(c)
          [] m = "semantic_scholar.search_by_title" ->
               IF Truthy(c.id)
               THEN /\ \E j \in 1..Len(r.net) : r.net[j].ep = "ss_paper_id"
                    /\ r.data = AsData(env.p2)
               ELSE r.data = CandData(c)
          [] m = "elsevier.search_by_title" ->
               /\ c.id # Absent
               /\ \E j \in 1..Len(r.net) : r.net[j].ep = "elsevier_abstract_doi"
               /\ r.data = ElsevierGetByDoi(Second(env)).data

\* C13: a title search over a well-formed response returns a result only
\* when the greatest similarity among the candidates with a title reaches
\* min_similarity, and then a result derived from a candidate of that
\* similarity; when no candidate reaches min_similarity, or none has a
\* title, it returns None.
C13_BestAboveThreshold ==
    (cl_method \in Searches /\ cl_res.phase # "idle" /\ cl_env.p1.kind = "ok") =>
      LET cands  == Scored(cl_method, cl_env)
          titled == {k \in 1..Len(cands) : cands[k].sim # NoTitle}
          r      == cl_res.r
      IN  /\ DataTruthy(r.data) =>
                \E k \in titled :
                  /\ \A j \in titled : cands[j].sim <= cands[k].sim
                  /\ cands[k].sim >= cl_env.min_similarity
                  /\ DerivedFrom(cl_method, cl_env, r, k)
          /\ (\A k \in titled : cands[k].sim < cl_env.min_similarity) =>
                /\ r.exc = "none"
                /\ r.data = None

DoiLookups == {"els_doi", "cr_doi", "ss_doi"}

\* C14: a record to enrich without a DOI and with a title gets the Crossref
\* title search first; a DOI carried by its match is stored in the record and is
\* the identifier of every later DOI lookup; the step itself sets no
\* abstract.
C14_Discovery ==
    InRecord =>
      /\ \A k \in 1..Len(calls) :
           calls[k].step = "discover" => k = 1 /\ DiscoveryDue(loaded[i]) /\ ~calls[k].got
      /\ (DiscoveryDue(loaded[i]) /\ ~HasAbstract(loaded[i]) /\ ~args.dry_run
             /\ pc # "discover")
           => calls # <<>> /\ calls[1].step = "discover"
                           /\ calls[1].arg = loaded[i]["title"]
      /\ (calls # <<>> /\ calls[1].step = "discover") =>
           /\ entries[i]["doi"] = IF calls[1].doi # Absent THEN calls[1].doi
                                  ELSE loaded[i]["doi"]
           /\ Len(calls) = 1 => entries[i]["abstract"] = loaded[i]["abstract"]
      /\ \A k \in 1..Len(calls) :
           calls[k].step \in DoiLookups =>
             /\ Truthy(calls[k].arg)
             /\ calls[k].arg = entries[i]["doi"]
\* the search discovers a DOI, only Semantic Scholar returns an abstract for it
C14_Witness ==
    /\ pc = "done"
    /\ Len(entries) = 1
    /\ DiscoveryDue(loaded[1])
    /\ elsevier /\ pubmed /\ args.use_elsevier /\ args.use_pubmed
    /\ calls # <<>>
    /\ calls[1].step = "discover" /\ calls[1].doi = "d2"
    /\ calls[Len(calls)].step = "ss_doi" /\ calls[Len(calls)].got
    /\ calls[Len(calls)].arg = "d2"
    /\ entries[1]["doi"] = "d2"
    /\ entries[1]["abstract"] = calls[Len(calls)].val
    /\ stats = [total |-> 1, enriched |-> 1, failed |-> 0, already_had_abstract |-> 0]

\* the record j is as loaded, but for a DOI the discovery search added
OnlyDoiAdded(j) ==
    /\ entries[j] = [loaded[j] EXCEPT !["doi"] = entries[j]["doi"]]
    /\ entries[j]["doi"] # loaded[j]["doi"] => DiscoveryDue(loaded[j])
NoAbstractYet(j) == ~Truthy(loaded[j]["abstract"]) /\ ~Truthy(entries[j]["abstract"])
C15_Frame ==
    /\ \A j \in 1..Counted : NoAbstractYet(j) => OnlyDoiAdded(j)
    /\ (InRecord /\ NoAbstractYet(i)) => OnlyDoiAdded(i)
    /\ stats.failed = Cardinality({j \in 1..Counted : NoAbstractYet(j)})
C15_Continues ==
    (pc = "count" /\ NoAbstractYet(i) /\ i < Len(entries))
      => pc' = "entry" /\ i' = i + 1 /\ stats'.failed = stats.failed + 1

\* C15: a record for which no step yielded a non-empty abstract has every
\* field as loaded, no abstract value added, except for a DOI added by the
\* discovery search; it is counted failed and the next record is processed.
C15_FailedUnmodified == []C15_Frame /\ [][C15_Continues]_vars
\* a failed record that gained a DOI, followed by a processed record
C15_Witness ==
    /\ pc = "done"
    /\ ~args.dry_run
    /\ Len(entries) = 2
    /\ loaded[1]["doi"] = Absent /\ entries[1]["doi"] = "d2"
    /\ NoAbstractYet(1)
    /\ stats.failed >= 1
    /\ elsevier /\ pubmed /\ args.use_semantic_scholar

AllHaveAbstract(es) == \A j \in 1..Len(es) : Truthy(es[j]["abstract"])

\* C16: when every loaded record has a non-empty abstract, the run makes no
\* provider call, changes no record and ends with already_had_abstract =
\* total, enriched = 0 and failed = 0; the output of a run in which no record
\* failed is such an input.
C16_Idempotent ==
    /\ AllHaveAbstract(loaded) =>
         /\ calls = <<>>
         /\ entries = loaded
         /\ pc # "raised"
         /\ stats.enriched = 0 /\ stats.failed = 0
         /\ pc \in {"save", "done"} =>
              /\ stats.total = Len(loaded)
              /\ stats.already_had_abstract = stats.total
    /\ (saved.writes > 0 /\ stats.failed = 0) => AllHaveAbstract(saved.entries)
\* a finished run over two records with abstracts, every provider available
C16_Witness ==
    /\ pc = "done"
    /\ ~args.dry_run
    /\ Len(loaded) = 2
    /\ AllHaveAbstract(loaded)
    /\ stats.already_had_abstract = 2
    /\ elsevier /\ pubmed /\ args.use_elsevier /\ args.use_pubmed
    /\ args.use_semantic_scholar

\* the provider of a step may be called: its flag is set and its client exists
Available(step) ==
    CASE step \in {"els_doi", "els_title"} -> args.use_elsevier /\ elsevier
      [] step \in {"pm_pmid", "pm_title"}  -> args.use_pubmed /\ pubmed
      [] step \in {"ss_doi", "ss_title"}   -> args.use_semantic_scholar
      [] OTHER                             -> TRUE

\* C17: a provider switched off by its flag, or without its credential,
\* receives no call for any record.
C17_DisabledSkipped ==
    \A k \in 1..Len(calls) : Available(calls[k].step)
\* only Crossref is called for a record with DOI, title and PMID when
\* Elsevier has no key and PubMed and Semantic Scholar are switched off
C17_Witness ==
    /\ pc = "count"
    /\ ~elsevier /\ pubmed /\ ~args.use_pubmed /\ ~args.use_semantic_scholar
    /\ loaded[i] = Entry("d1", "t1", "p1", Absent)
    /\ Len(calls) = 2
    /\ calls[1].step = "cr_doi" /\ calls[2].step = "cr_title"
    /\ ~calls[2].got

\* C18: ElsevierAPI without an API key and PubMedAPI without an email raise
\* at construction, before a session is created or Entrez is assigned; a
\* BibTeXEnricher is constructed whatever credentials are missing, the
\* provider without credential being None and the others in place.
C18_Raised ==
    /\ built.cls # "none" =>
         /\ built.exc = "ValueError" <=> ~Truthy(built.credential)
         /\ built.exc = "ValueError" => built.session = "none"
         /\ built.exc = "none" => built.session # "none"
    /\ \A e \in 1..Len(enrichers) :
         /\ enrichers[e].exc = "none"
         /\ enrichers[e].crossref # "none" /\ enrichers[e].semantic_scholar # "none"
         /\ enrichers[e].pubmed = "none" <=> ~Truthy(enrichers[e].pubmed_email)
         /\ enrichers[e].elsevier = "none" <=> ~Truthy(enrichers[e].elsevier_api_key)
C18_NothingChanged ==
    (built' # built /\ built'.exc = "ValueError")
      => UNCHANGED <<entrez, session_factory, enrichers, store>>
C18_FailFast == []C18_Raised /\ [][C18_NothingChanged]_vars
\* PubMedAPI with an empty email raised after an enricher without any
\* credential and one with a PubMed email were constructed
C18_Witness ==
    /\ built.cls = "PubMedAPI" /\ built.credential = Empty /\ built.exc = "ValueError"
    /\ Len(enrichers) = 2
    /\ enrichers[1].pubmed = "none" /\ enrichers[1].elsevier = "none"
    /\ enrichers[2].pubmed # "none"
    /\ entrez.email = "e1"

----------------------------------------------------------------------------
(* SpecLive: the batch run with providers that may stop responding.  No     *)
(* request is given a timeout (session.get(url), Entrez.efetch(...)), so a  *)
(* request that gets no response does not return.  The run is scheduled    *)
(* whenever it can take a step.                                             *)
Due(step) == IF step = "discover" THEN DiscoveryDue(entries[i]) ELSE Wanted(step)

\* the provider accepts the request of the current step and never answers
NoResponse ==
    /\ pc \in RetrievalSteps \cup {"discover"}
    /\ Due(pc)
    /\ pc' = "waiting"
    /\ last' = [step |-> pc, fail |-> "silent", exc |-> "none"]
    /\ UNCHANGED <<elsevier, pubmed, args, entries, loaded, i, doi, had_abstract,
                   stats, calls, saved, otherVars>>

NextLive == Next \/ NoResponse
SpecLive == Init /\ [][NextLive]_vars /\ WF_vars(NextLive)

\* C19: every run of enrich_file ends, by its return or by an exception,
\* also when a provider stops responding to a request.
C19_Terminates == <>(pc \in {"done", "raised"})

\* a and b hold the same records, in any order
SameRecords(a, b) ==
    /\ Len(a) = Len(b)
    /\ \E f \in [1..Len(a) -> 1..Len(a)] :
         /\ \A x, y \in 1..Len(a) : f[x] = f[y] => x = y
         /\ \A x \in 1..Len(a) : a[f[x]] = b[x]

\* C20: records are processed one at a time in file order; outside dry-run
\* the records are saved exactly once, after the last one was processed,
\* and the saved set holds every loaded record; a run ended by an exception
\* saves nothing.
C20_State ==
    /\ saved.writes <= 1
    /\ saved.writes = 1 =>
         /\ pc = "done" /\ ~args.dry_run
         /\ Counted = Len(loaded)
         /\ SameRecords(saved.entries, entries)
    /\ (pc = "done" /\ ~args.dry_run) => saved.writes = 1
    /\ pc = "raised" => saved.writes = 0
    /\ InRecord => \A j \in (i + 1)..Len(entries) : entries[j] = loaded[j]
    /\ (InRecord /\ pc \notin {"save", "done"}) =>
         stats.enriched + stats.failed + stats.already_had_abstract = i - 1
C20_Step ==
    /\ i' # i => /\ pc \in {"start", "count"}
                 /\ i' = IF pc = "start" THEN 1 ELSE i + 1
    /\ saved' # saved => pc = "save" /\ pc' = "done"
C20_Sequential == []C20_State /\ [][C20_Step]_vars
\* an untouched record with a title and an enriched record without one,
\* saved in the writer's order
C20_Witness ==
    /\ pc = "done"
    /\ Len(entries) = 2
    /\ saved.writes = 1
    /\ entries[1] = loaded[1] /\ Truthy(loaded[1]["abstract"])
    /\ ~Truthy(loaded[2]["abstract"]) /\ Truthy(entries[2]["abstract"])
    /\ saved.entries = <<entries[2], entries[1]>>

----------------------------------------------------------------------------
\* C21: title_similarity returns a value in [0, 1], returns 1.0 when both
\* arguments are the same non-empty title, and returns the same value with
\* its arguments exchanged.
C21_InRange   == 0 <= similarity.num /\ similarity.num <= similarity.den
C21_Reflexive == (titleA = titleB /\ titleA # <<>>) => IsOne(similarity)
C21_Symmetric == SameRatio(similarity, title_similarity(titleB, titleA))
C21_Similarity ==
    "title_similarity" \in applied =>
        C21_InRange /\ C21_Reflexive /\ C21_Symmetric

\* C22: two titles that differ only in letter case and in characters other
\* than word characters, spaces and hyphens have the same clean_title and
\* the similarity 1.0.
Kept(t) == SelectSeq(t, LAMBDA c : ~Special(c))
DifferOnlyInCaseAndPunctuation(s, t) == Lower(Kept(s)) = Lower(Kept(t))
C22_CaseAndPunctuation ==
    ({"clean_title", "title_similarity"} \subseteq applied
        /\ DifferOnlyInCaseAndPunctuation(titleA, titleB))
    => (cleaned = clean_title(titleB) /\ IsOne(similarity))

\* C23: clean_abstract returns None for an empty text; for a non-empty text
\* the result has no whitespace at its ends and no two consecutive spaces,
\* and "<p>Foo &amp; Bar</p>" gives "Foo & Bar".
C23_NoDoubleSpace ==
    \A k \in 1..Len(abstract.text) - 1 :
        ~(abstract.text[k] \in Spaces /\ abstract.text[k + 1] \in Spaces)
C23_Trimmed ==
    abstract.text # <<>> =>
        abstract.text[1] \notin Spaces /\ abstract.text[Len(abstract.text)] \notin Spaces
C23_CleanAbstract ==
    "clean_abstract" \in applied =>
        /\ abstract.none <=> raw = <<>>
        /\ raw = Example => abstract.text = <<"Foo", " ", "&", " ", "Bar">>
        /\ C23_Trimmed
        /\ C23_NoDoubleSpace

----------------------------------------------------------------------------
\* C24: an empty string counts as an absent field: no provider operation is
\* invoked with an empty title, an empty pmid or an empty DOI as its
\* argument.
C24_EmptyIsAbsent ==
    \A k \in 1..Len(calls) : calls[k].arg # Empty

----------------------------------------------------------------------------
\* C25: every client uses the configuration its own constructor was given:
\* the requests of a PubMed client carry the email and API key it was
\* constructed with, whatever clients were constructed since, and the
\* clients of an enricher constructed without cache path send through a
\* plain session.
C25_OwnCredentials ==
    /\ \A e \in 1..Len(enrichers) :
         enrichers[e].pubmed # "none" =>
            /\ entrez.email = enrichers[e].pubmed_email
            /\ entrez.api_key = Absent
    /\ (built.cls = "PubMedAPI" /\ built.exc = "none") =>
            entrez.email = built.credential
C25_OwnSession ==
    \A e \in 1..Len(enrichers) :
        enrichers[e].cache_path = Absent =>
            /\ enrichers[e].crossref = "Session"
            /\ enrichers[e].semantic_scholar = "Session"
C25_PerClient == C25_OwnCredentials /\ C25_OwnSession

----------------------------------------------------------------------------
\* C26: main without an output path writes to the input file's directory,
\* under the input stem followed by "_with_abstracts.bib"; it exits with a
\* non-zero status and prints no summary when the input file does not exist
\* or enrich_file raises, and prints the four statistics otherwise.
DefaultNames ==
    [n \in {p.name : p \in InputPaths} |->
        CASE n = <<"refs", "bib">>     -> <<"refs_with_abstracts", "bib">>
          [] n = <<"refs">>            -> <<"refs_with_abstracts", "bib">>
          [] n = <<"a", "tar", "bib">> -> <<"a", "tar_with_abstracts", "bib">>]
C26_Main ==
    /\ (cli_pc \in {"construct", "enrich", "running"} \/ (cli_pc = "exited" /\ fs # "missing"))
         => IF Truthy(argv.output)
            THEN output_path = [parent |-> "out", name |-> <<"o", "bib">>]
            ELSE output_path = [parent |-> argv.input_file.parent,
                                name   |-> DefaultNames[argv.input_file.name]]
    /\ cli_pc = "exited" =>
         IF fs = "missing" \/ pc = "raised"
         THEN exit_status # 0 /\ summary = <<>>
         ELSE /\ exit_status = 0
              /\ pc = "done"
              /\ summary = <<stats.total, stats.already_had_abstract,
                             stats.enriched, stats.failed>>
    /\ cli_pc # "exited" => summary = <<>>
\* a run without output argument on "dir/a.tar.bib" that enriched a record
\* and printed the summary
C26_Witness ==
    /\ cli_pc = "exited" /\ argv.output = Absent
    /\ argv.input_file.name = <<"a", "tar", "bib">>
    /\ summary # <<>> /\ stats.enriched > 0

----------------------------------------------------------------------------
\* C27: within a provider the identifier lookup comes before the title
\* search: when a provider's title search is invoked for a record, its
\* identifier lookup was invoked before whenever the record has the
\* identifier, it did not give a non-empty abstract, and it is not invoked
\* afterwards.
TitleSteps == {"els_title", "pm_title", "cr_title", "ss_title"}
LookupOf(step) ==
    CASE step = "els_title" -> "els_doi"
      [] step = "pm_title"  -> "pm_pmid"
      [] step = "cr_title"  -> "cr_doi"
      [] step = "ss_title"  -> "ss_doi"
C27_LookupFirst ==
    InRecord =>
      \A k \in 1..Len(calls) :
        calls[k].step \in TitleSteps =>
          /\ \A j \in 1..Len(calls) :
                calls[j].step = LookupOf(calls[k].step) => j < k /\ ~calls[j].got
          /\ Wanted(LookupOf(calls[k].step))
                => \E j \in 1..(k - 1) : calls[j].step = LookupOf(calls[k].step)
\* the Crossref title search gave the abstract after the Crossref DOI lookup
\* gave none, and PubMed was searched by title for a record without pmid
C27_Witness ==
    /\ pc = "count"
    /\ \E j, k \in 1..Len(calls) :
         /\ j < k
         /\ calls[j].step = "cr_doi" /\ calls[k].step = "cr_title" /\ calls[k].got
    /\ \E k \in 1..Len(calls) : calls[k].step = "pm_title"
    /\ \A k \in 1..Len(calls) : calls[k].step # "pm_pmid"

----------------------------------------------------------------------------
\* C28: linear backoff: in every retry loop the wait after the k-th failed
\* attempt is k time units, so three failures wait 1 and then 2; there is no
\* wait after the last attempt made, be it the third failure or a success,
\* and only an attempt that failed is followed by a wait.
\* the endpoints whose request heads a retry loop, in the order of the loops
RetryLoops(m) ==
    CASE m = "crossref.get_by_doi"               -> <<>>
      [] m = "crossref.search_by_title"          -> <<"crossref_search">>
      [] m = "semantic_scholar.get_by_doi"       -> <<"ss_paper_doi">>
      [] m = "semantic_scholar.search_by_title"  -> <<"ss_search">>
      [] m = "elsevier.get_by_doi"               -> <<"elsevier_abstract_doi">>
      [] m = "elsevier.search_by_title"          -> <<"elsevier_search", "elsevier_abstract_doi">>
      [] m = "pubmed.get_by_pmid"                -> <<"pubmed_efetch">>
      [] m = "pubmed.search_by_title"            -> <<"pubmed_esearch">>
Backoff(n) == [k \in 1..(n - 1) |-> k]
\* the attempt of a PubMed loop raises after its requests were answered
RaisesOnPayload ==
    /\ cl_method \in {"pubmed.get_by_pmid", "pubmed.search_by_title"}
    /\ \/ cl_env.p1.kind \in Malformed
       \/ cl_env.p2.kind \in Malformed
       \/ \E c \in 1..Len(cl_env.p1.cands) : cl_env.p1.cands[c].sim = NoTitle
\* the attempt that starts with call k of the log failed: its request
\* failed, or the request that follows it within the same attempt did, or
\* the answer made the attempt raise
AttemptFailed(net, k, loops) ==
    \/ Failed(net[k].status)
    \/ /\ k < Len(net)
       /\ \A l \in 1..Len(loops) : net[k + 1].ep # loops[l]
       /\ Failed(net[k + 1].status)
    \/ RaisesOnPayload
----------------------------------------------------------------------------
\* C29: of several candidates with the same maximum similarity a title
\* search selects the one the provider returned first: the record a Crossref
\* or PubMed search returns is that candidate, and the second request of a
\* Semantic Scholar or Elsevier search is made exactly when that candidate
\* carries an identifier.
Titled(cands) == {k \in 1..Len(cands) : cands[k].sim # NoTitle}
\* the first of the candidates of maximum similarity
FirstMax(cands) ==
    CHOOSE k \in Titled(cands) :
        \A j \in Titled(cands) :
            cands[j].sim < cands[k].sim \/ (cands[j].sim = cands[k].sim /\ k <= j)
\* the search request was answered with candidates and the method returned
\* normally, the best titled candidate reaching the threshold
Selected ==
    /\ cl_res.phase # "idle"
    /\ cl_method \in Searches
    /\ cl_res.r.exc = "none"
    /\ ~Exhausted(cl_env.st1)
    /\ cl_env.p1.kind = "ok"
    /\ Titled(cl_env.p1.cands) # {}
    /\ cl_env.p1.cands[FirstMax(cl_env.p1.cands)].sim >= cl_env.min_similarity
C29_FirstWins ==
    Selected =>
      LET first  == cl_env.p1.cands[FirstMax(cl_env.p1.cands)]
          second == Endpoints(cl_res.r.net) \cap {"ss_paper_id", "elsevier_abstract_doi"}
      IN  /\ cl_method = "crossref.search_by_title" => cl_res.r.data = CandData(first)
          /\ (cl_method = "pubmed.search_by_title" /\ DataTruthy(cl_res.r.data))
                => cl_res.r.data = CandData(first)
          /\ cl_method = "semantic_scholar.search_by_title" =>
                IF Truthy(first.id) THEN second # {}
                ELSE second = {} /\ cl_res.r.data = CandData(first)
          /\ cl_method = "elsevier.search_by_title" =>
                (second # {} <=> first.id # Absent)
\* two candidates of the same similarity 0.90, the first without DOI and
\* with an abstract, the second with a DOI: Crossref returns the first
C29_Witness ==
    /\ Selected
    /\ cl_method = "crossref.search_by_title"
    /\ Len(cl_env.p1.cands) = 2
    /\ cl_env.p1.cands[1].sim = 90 /\ cl_env.p1.cands[2].sim = 90
    /\ cl_env.p1.cands[1].id = Absent /\ cl_env.p1.cands[2].id = "d2"
    /\ cl_res.r.data.id = Absent

----------------------------------------------------------------------------
\* C30: an Elsevier title search whose best candidate reaches the threshold
\* looks the candidate's DOI up with get_by_doi and returns what the lookup
\* returns, never the entry of the search response; when the candidate has
\* no DOI the search returns None without a lookup.
C30_SecondLookup ==
    (Selected /\ cl_method = "elsevier.search_by_title") =>
      LET first   == cl_env.p1.cands[FirstMax(cl_env.p1.cands)]
          lookups == CallsTo(cl_res.r.net, "elsevier_abstract_doi")
          lookup  == ElsevierGetByDoi(Second(cl_env))
      IN  /\ cl_res.r.data # CandData(first)
          /\ IF first.id # Absent
             THEN /\ lookups # {}
                  /\ \A k \in lookups : \A j \in CallsTo(cl_res.r.net, "elsevier_search") : j < k
                  /\ Cardinality(lookups) = Len(lookup.net)
                  /\ cl_res.r.data = lookup.data
             ELSE lookups = {} /\ cl_res.r.data = None
\* the search matched a candidate with DOI and abstract, the lookup of the
\* DOI answered without abstract, and the search returned the lookup's
\* record
C30_Witness ==
    /\ Selected /\ cl_method = "elsevier.search_by_title"
    /\ cl_env.p1.cands[FirstMax(cl_env.p1.cands)].id = "d2"
    /\ cl_env.p1.cands[FirstMax(cl_env.p1.cands)].abs = "abs"
    /\ cl_env.st2 = AllOk /\ cl_env.p2 = Payload("ok", Absent, <<>>)
    /\ cl_res.r.data = Obj(Absent, Absent)

----------------------------------------------------------------------------
\* the client method a step of enrich_entry calls
MethodOf(step) ==
    CASE step \in {"discover", "cr_title"} -> "crossref.search_by_title"
      [] step = "cr_doi"    -> "crossref.get_by_doi"
      [] step = "els_doi"   -> "elsevier.get_by_doi"
      [] step = "els_title" -> "elsevier.search_by_title"
      [] step = "pm_pmid"   -> "pubmed.get_by_pmid"
      [] step = "pm_title"  -> "pubmed.search_by_title"
      [] step = "ss_doi"    -> "semantic_scholar.get_by_doi"
      [] step = "ss_title"  -> "semantic_scholar.search_by_title"
Invocations(m) == {k \in 1..Len(calls) : MethodOf(calls[k].step) = m}
StepCalled(step) == \E k \in 1..Len(calls) : calls[k].step = step
\* enrich_entry is past the Crossref blocks of the record
PastCrossref == InRecord /\ pc \in {"ss_doi", "ss_title"}

----------------------------------------------------------------------------
Fields      == {"doi", "title", "pmid", "abstract", "author"}
\* the fields enrich_entry may assign
Assignable  == {"doi", "abstract"}

\* C32: whatever the providers answer, a record differs from the record as
\* loaded in its 'abstract' and 'doi' at most: the title, the author and
\* every other field keep their values, and no field is removed.
C32_Frame ==
    /\ Len(entries) = Len(loaded)
    /\ \A j \in 1..Len(entries) :
         /\ \A f \in Fields \ Assignable : entries[j][f] = loaded[j][f]
         /\ \A f \in Fields : Has(loaded[j], f) => Has(entries[j], f)
\* a record that gained both a DOI and an abstract and kept the rest
C32_Witness ==
    /\ pc = "done"
    /\ Len(entries) = 1
    /\ loaded[1] = Entry(Absent, "t1", Absent, Absent)
    /\ entries[1]["doi"] = "d2" /\ Truthy(entries[1]["abstract"])
    /\ entries[1]["title"] = "t1" /\ entries[1]["author"] = "au"

----------------------------------------------------------------------------
C33_Kept ==
    /\ \A j \in 1..Len(entries) :
         /\ Truthy(loaded[j]["doi"]) => entries[j]["doi"] = loaded[j]["doi"]
         /\ entries[j]["doi"] # loaded[j]["doi"] => Truthy(entries[j]["doi"])
    /\ InRecord => (StepCalled("discover") => ~Truthy(loaded[i]["doi"]))
C33_Assigned ==
    \A j \in 1..Len(entries) :
      entries'[j]["doi"] # entries[j]["doi"]
        => /\ pc = "discover" /\ pc' # "discover" /\ j = i
           /\ entries[j]["doi"] = loaded[j]["doi"]
           /\ ~Truthy(entries[j]["doi"])

\* C33: a non-empty DOI a record was loaded with is never overwritten: the
\* discovery search is made only for a record without a non-empty DOI, and
\* the record's DOI is assigned only by the discovery step, which the
\* record passes once, on a record that still has its loaded, empty or
\* missing, DOI.
C33_DoiKept == []C33_Kept /\ [][C33_Assigned]_vars
\* a record with a DOI, a title and a pmid that went through the eight blocks
\* of enrich_entry without the discovery search and kept its DOI
C33_Witness ==
    /\ pc = "done"
    /\ loaded[1] = Entry("d1", "t1", "p1", Absent)
    /\ entries[1]["doi"] = "d1"
    /\ Len(calls) = 8
    /\ calls[1].step = "els_doi" /\ calls[1].arg = "d1"
    /\ calls[8].step = "ss_title"

----------------------------------------------------------------------------
\* C34: in a dry run of enrich_file no record is counted enriched and every
\* processed record without a non-empty abstract is counted failed, though
\* no provider was called for it; at the end failed is total minus
\* already_had_abstract.
C34_DryRunStats ==
    args.dry_run =>
      /\ stats.enriched = 0
      /\ stats.failed = Cardinality({j \in 1..Counted : ~HasAbstract(loaded[j])})
      /\ stats.already_had_abstract
           = Cardinality({j \in 1..Counted : HasAbstract(loaded[j])})
      /\ pc \in {"save", "done"} =>
           stats.failed = stats.total - stats.already_had_abstract
      /\ calls = <<>>
\* a finished dry run over a record whose abstract is the empty string and a
\* record with an abstract
C34_Witness ==
    /\ args.dry_run
    /\ pc = "done"
    /\ loaded = <<Entry(Empty, Empty, Empty, Empty), Entry(Absent, "t1", "p1", "a0")>>
    /\ stats = [total |-> 2, enriched |-> 0, failed |-> 1, already_had_abstract |-> 1]
    /\ calls = <<>>

----------------------------------------------------------------------------
\* one closing bracket removed from the end, before optional whitespace
DropClosing(ts) ==
    LET n == Len(ts) - TrailingSpaces(ts)
    IN  IF n >= 1 /\ ts[n] \in Closing THEN SubSeq(ts, 1, n - 1) ELSE ts

\* C35: clean_abstract removes a stray bracket at both ends: the result is
\* the cleaned body without one of "[", "{", "(" at its start and without
\* one of "]", "}", ")" at its end, trimmed.
C35_Brackets ==
    ("clean_abstract" \in applied /\ raw # <<>>) =>
        abstract.text = Strip(DropClosing(DropLeading(Body(raw))))
====
